---- MODULE Spec2Model ----
(***************************************************************************)
(* A model of the variable/domain resolution engine of netzob: the SVAS    *)
(* dispatch of leaf variables, the Agg node (parse and specialize), the    *)
(* children setter of node variables, the Padding relation and the type    *)
(* descriptor AbstractType, with the part of the fuzzing configuration     *)
(* (Fuzz) that leaf specialization consults.                               *)
(*                                                                         *)
(* Data is a sequence of units (a unit stands for one byte, or one bit     *)
(* where only bit lengths matter).  A path maps variable ids to the data   *)
(* assigned to them and carries the memory.  Every operation returns a     *)
(* record [exc, paths, called]: the exception raised ("none" when it       *)
(* returned), the list of paths returned, and the leaf operations that     *)
(* were invoked, in order.                                                 *)
(***************************************************************************)
EXTENDS Integers, Sequences, FiniteSets, TLC

VARIABLES
    op,      \* the operation performed by the last step
    arg,     \* its inputs
    res,     \* what it returned
    fuzzMap, \* the mappings of Fuzz: mappingFieldsMutators and mappingTypesMutators
    node,    \* an Agg object: its _children and the exception of the last assignment
    ty,      \* a type descriptor (AbstractType instance): value, size
    mutator, \* a mutator: its class, _currentCounter and counterMax
    stack,   \* the frames of the running Agg.specialize calls, outermost first
    fuzzes,  \* two Fuzz objects, the class attributes of Fuzz and Mutator.globalCounterMax
    exec     \* the active flag of a Transition and the position of its running execute method

vars == <<op, arg, res, fuzzMap, node, ty, mutator, stack, fuzzes, exec>>

-----------------------------------------------------------------------------
(* Bounds of the model *)

\* units a data value is made of are 1..NByte
NByte == 2
\* longest data handed to a parse operation
MaxData == 3

Byte == 1..NByte

\* all data values of length lo..hi
SeqsOf(lo, hi) == UNION {[1..n -> Byte] : n \in lo..hi}

None == [isNone |-> TRUE]

-----------------------------------------------------------------------------
(* Sequence helpers *)

Prefix(s, n) == SubSeq(s, 1, n)
Drop(s, n) == SubSeq(s, n + 1, Len(s))
StartsWith(s, e) == Len(s) >= Len(e) /\ Prefix(s, Len(e)) = e
Min(a, b) == IF a <= b THEN a ELSE b

RECURSIVE Flatten(_)
Flatten(ss) == IF ss = <<>> THEN <<>> ELSE Head(ss) \o Flatten(Tail(ss))

-----------------------------------------------------------------------------
(* Variable identities.  The SELF marker is a class, not a variable; a     *)
(* path that is asked to hold data for it keys it by the marker itself.    *)

SelfId == 0
Ids == 0..6

SELF == [kind |-> "SELF", id |-> SelfId]

-----------------------------------------------------------------------------
(* GenericPath / ParsingPath / SpecializingPath and Memory *)

EmptyPath ==
    [has |-> {}, val |-> [i \in Ids |-> <<>>],
     mhas |-> {}, mval |-> [i \in Ids |-> <<>>],
     trace |-> <<>>]

hasData(p, v) == v.id \in p.has
getData(p, v) == p.val[v.id]
assignData(p, d, v) == [p EXCEPT !.has = @ \cup {v.id}, !.val[v.id] = d]
\* addResult assigns the result to the variable
addResult(p, v, d) == assignData(p, d, v)
memorize(p, v, d) == [p EXCEPT !.mhas = @ \cup {v.id}, !.mval[v.id] = d]
hasValue(p, v) == v.id \in p.mhas
\* ghost: the operations performed on this path, in order
Traced(p, name, v) == [p EXCEPT !.trace = Append(@, <<name, v.id>>)]

Ok(paths, called) == [exc |-> "none", paths |-> paths, called |-> called]
Raise(e, called) == [exc |-> e, paths |-> <<>>, called |-> called]

-----------------------------------------------------------------------------
(* Data leaves.  A leaf is [kind, id, svas, hasValue, value, min, max]:    *)
(* the value of its data type when it has one, else its size bounds.       *)

SVAS == {"CONSTANT", "EPHEMERAL", "PERSISTENT", "VOLATILE"}

Leaf(id, svas, hasV, value, lo, hi) ==
    [kind |-> "Data", id |-> id, svas |-> svas, hasValue |-> hasV,
     value |-> value, min |-> lo, max |-> hi]

ConstLeaf(id, value) == Leaf(id, "CONSTANT", TRUE, value, 0, 0)
EphLeaf(id, lo, hi) == Leaf(id, "EPHEMERAL", FALSE, <<>>, lo, hi)

isDefined(v, p) == v.hasValue \/ hasValue(p, v)

\* the value a defined leaf stands for: the memory has priority
CurrentValue(v, p) == IF hasValue(p, v) THEN p.mval[v.id] ELSE v.value

valueCMP(v, p) ==
    LET content == getData(p, v)
        expected == CurrentValue(v, p)
    IN  IF StartsWith(content, expected)
        THEN Ok(<<Traced(addResult(p, v, expected), "valueCMP", v)>>,
                <<<<"valueCMP", v.id>>>>)
        ELSE Ok(<<>>, <<<<"valueCMP", v.id>>>>)

\* the candidate sizes of a leaf without value, the longest first
RECURSIVE SizesDown(_, _)
SizesDown(hi, lo) == IF hi < lo THEN <<>> ELSE <<hi>> \o SizesDown(hi - 1, lo)

CandidateSizes(v, content) ==
    IF v.hasValue
    THEN (IF StartsWith(content, v.value) THEN <<Len(v.value)>> ELSE <<>>)
    ELSE SizesDown(Min(v.max, Len(content)), v.min)

learn(v, p) ==
    LET content == getData(p, v)
        sizes == CandidateSizes(v, content)
    IN  Ok([k \in 1..Len(sizes) |->
              Traced(memorize(addResult(p, v, Prefix(content, sizes[k])),
                              v, Prefix(content, sizes[k])), "learn", v)],
           <<<<"learn", v.id>>>>)

domainCMP(v, p) ==
    LET content == getData(p, v)
        sizes == CandidateSizes(v, content)
    IN  Ok([k \in 1..Len(sizes) |->
              Traced(addResult(p, v, Prefix(content, sizes[k])), "domainCMP", v)],
           <<<<"domainCMP", v.id>>>>)

use(v, p) ==
    Ok(<<Traced(addResult(p, v, CurrentValue(v, p)), "use", v)>>,
       <<<<"use", v.id>>>>)

\* g is the value the data type generates
regenerate(v, p, g) ==
    Ok(<<Traced(addResult(p, v, g), "regenerate", v)>>,
       <<<<"regenerate", v.id>>>>)

regenerateAndMemorize(v, p, g) ==
    Ok(<<Traced(memorize(addResult(p, v, g), v, g), "regenerateAndMemorize", v)>>,
       <<<<"regenerateAndMemorize", v.id>>>>)

\* the values AbstractType.generate can return for the leaf's data type
Generable(v) == IF v.hasValue THEN {v.value} ELSE SeqsOf(v.min, v.max)

-----------------------------------------------------------------------------
(* AbstractVariableLeaf.parse *)

\* a dispatch that lets a CONSTANT leaf without value learn one
LeafParseLearnsConstant(v, p) ==
    IF v.svas = "None"
    THEN Raise("Exception", <<>>)
    ELSE IF isDefined(v, p)
    THEN CASE v.svas \in {"CONSTANT", "PERSISTENT"} -> valueCMP(v, p)
           [] v.svas = "EPHEMERAL" -> learn(v, p)
           [] v.svas = "VOLATILE" -> domainCMP(v, p)
    ELSE CASE v.svas \in {"CONSTANT", "EPHEMERAL", "PERSISTENT"} -> learn(v, p)
           [] v.svas = "VOLATILE" -> domainCMP(v, p)

LeafParse(v, p) ==
    IF v.svas = "None"
    THEN Raise("Exception", <<>>)
    ELSE IF isDefined(v, p)
    THEN CASE v.svas \in {"CONSTANT", "PERSISTENT"} -> valueCMP(v, p)
           [] v.svas = "EPHEMERAL" -> learn(v, p)
           [] v.svas = "VOLATILE" -> domainCMP(v, p)
    ELSE CASE v.svas = "CONSTANT" -> Ok(<<>>, <<>>)
           [] v.svas \in {"EPHEMERAL", "PERSISTENT"} -> learn(v, p)
           [] v.svas = "VOLATILE" -> domainCMP(v, p)

-----------------------------------------------------------------------------
(* Fuzz.  The state of the fuzzing configuration is [fields, types]:       *)
(* fields is mappingFieldsMutators, a function from the keys it holds to   *)
(* Mutator instances, and types the default parameters that                *)
(* mappingTypesMutators keeps for the data type of the leaves.  A key is a *)
(* field, a variable or the data type; a field key names the variable that *)
(* is its domain.                                                          *)

FieldKey(id) == <<"Field", id>>
VarKey(id) == <<"Var", id>>
TypeKey == <<"Type", 0>>
IsFieldKey(k) == k[1] = "Field"
IsTypeKey(k) == k[1] = "Type"
\* the domain of a field without sub-fields
DomainKey(k) == VarKey(k[2])

MutatorModes == {"GENERATE", "MUTATE"}
\* the keyword arguments of Fuzz.set: a mode or none
Kwargs == {[mode |-> m] : m \in MutatorModes \cup {"absent"}}

\* The variables: 1 is a leaf, 2 is Agg([3, 4]) with 3 a leaf and 4 the node
\* Agg([5]), 5 a leaf.  Fields 1 and 2 have the domains 1 and 2.
VarChildren(k) ==
    CASE k = VarKey(2) -> <<VarKey(3), VarKey(4)>>
      [] k = VarKey(4) -> <<VarKey(5)>>
      [] OTHER -> << >>
\* isinstance(k, AbstractVariableNode)
IsNodeKey(k) == VarChildren(k) # << >>

\* the types that have default mutator parameters: the type of the leaves
\* (TypeKey) and Agg
TypeNames == {"Integer", "Agg"}
\* the entry of mappingTypesMutators that _retrieveDefaultMutator selects
TypeOf(k) == IF IsNodeKey(k) THEN "Agg" ELSE "Integer"

\* Fuzz._initializeMappings: both mappings are reset
FuzzInitial == [fields |-> << >>, types |-> [t \in TypeNames |-> [mode |-> "absent"]]]

\* dict.update of the default parameters with the kwargs
UpdateParams(params, kwargs) ==
    IF kwargs.mode = "absent" THEN params ELSE [params EXCEPT !.mode = kwargs.mode]

\* the Mutator built from the parameters; its mode defaults to GENERATE
MutatorInstance(params) ==
    [isNone |-> FALSE,
     mode |-> IF params.mode = "absent" THEN "GENERATE" ELSE params.mode]

MapPut(m, k, v) == [x \in DOMAIN m \cup {k} |-> IF x = k THEN v ELSE m[x]]
MapDel(m, k) == [x \in DOMAIN m \ {k} |-> m[x]]

\* Fuzz._normalizeKeys on the entry just stored under key k: a field key is
\* removed and its value is stored under the field's domain variable
NormalizeKeys(m, k) ==
    IF IsFieldKey(k) /\ k \in DOMAIN m
    THEN MapPut(MapDel(m, k), DomainKey(k), m[k])
    ELSE m

\* Fuzz._normalizeValues with _retrieveDefaultMutator, on the entry stored
\* under key k whose value is still the kwargs: the default parameters of the
\* type are updated in place with the kwargs, and the entry becomes the
\* Mutator built from them (the other entries are Mutator instances already)
NormalizeValues(fs, k) ==
    LET params == UpdateParams(fs.types[TypeOf(k)], fs.fields[k])
    IN  [fields |-> [fs.fields EXCEPT ![k] = MutatorInstance(params)],
         types |-> [fs.types EXCEPT ![TypeOf(k)] = params]]

\* dict.update
MapUpdate(m, n) == [x \in DOMAIN m \cup DOMAIN n |-> IF x \in DOMAIN n THEN n[x] ELSE m[x]]

\* Fuzz._propagateMutation on the children cs of an Agg whose mutator has
\* mutateChild set (the default of AggMutator): a child that has no entry
\* gets the default mutator of its type, and its own children after it
RECURSIVE PropagateMutation(_, _, _)
PropagateMutation(fs, cs, i) ==
    IF i > Len(cs) THEN << >>
    ELSE IF cs[i] \in DOMAIN fs.fields THEN PropagateMutation(fs, cs, i + 1)
    ELSE MapUpdate(
             MapUpdate(MapPut(<< >>, cs[i], MutatorInstance(fs.types[TypeOf(cs[i])])),
                       PropagateMutation(fs, VarChildren(cs[i]), 1)),
             PropagateMutation(fs, cs, i + 1))

\* the second loop of _normalize_mappingFieldsMutators: the mutation of
\* every node variable of the mapping is propagated to its children
RECURSIVE PropagateAll(_, _)
PropagateAll(fs, nodes) ==
    IF nodes = {} THEN << >>
    ELSE LET k == CHOOSE x \in nodes : TRUE
         IN  MapUpdate(PropagateMutation(fs, VarChildren(k), 1),
                       PropagateAll(fs, nodes \ {k}))

Propagated(fs) ==
    [fs EXCEPT !.fields =
        MapUpdate(@, PropagateAll(fs, {k \in DOMAIN fs.fields : IsNodeKey(k)}))]

\* Fuzz.set(key, **kwargs) for a type, a field or a variable
FuzzSet(fs, k, kwargs) ==
    IF IsTypeKey(k)
    THEN [fs EXCEPT !.types["Integer"] = UpdateParams(@, kwargs)]
    ELSE LET stored == MapPut(fs.fields, k, kwargs)
             keyed == NormalizeKeys(stored, k)
         IN  Propagated(NormalizeValues([fs EXCEPT !.fields = keyed],
                                        IF IsFieldKey(k) THEN DomainKey(k) ELSE k))

\* Fuzz.unset(key): a variable key is removed, a field key removes the entry
\* of the field's domain
FuzzUnset(fs, k) ==
    [fs EXCEPT !.fields = IF IsFieldKey(k) THEN MapDel(@, DomainKey(k))
                          ELSE MapDel(@, k)]

\* Fuzz.get(key) for a field or a variable
FuzzGet(fs, k) == IF k \in DOMAIN fs.fields THEN fs.fields[k] ELSE None

\* the fuzz argument of specialize: None or a Fuzz object
NoFuzz == [isNone |-> TRUE]
WithFuzz(fs) == [isNone |-> FALSE, state |-> fs]

-----------------------------------------------------------------------------
(* AbstractVariableLeaf.specialize.  fuzz is NoFuzz or a Fuzz object, g    *)
(* the value the data type generates, gm the value mutator.generate()      *)
(* returns and mu the mutation that mutator.mutate() applies.              *)

Mutate(mu, d) == IF mu = "dup" THEN d \o d ELSE <<>>
Mutations == {"dup", "cut"}

\* fuzz.get(self.field)
LeafFuzzLookup(v, fuzz) ==
    IF fuzz.isNone THEN None ELSE FuzzGet(fuzz.state, FieldKey(v.id))

\* a dispatch that reuses the value of a defined EPHEMERAL leaf
LeafDispatchUsesEphemeral(v, p, g) ==
    IF isDefined(v, p)
    THEN CASE v.svas \in {"CONSTANT", "PERSISTENT", "EPHEMERAL"} -> use(v, p)
           [] v.svas = "VOLATILE" -> regenerate(v, p, g)
    ELSE CASE v.svas = "CONSTANT" -> Ok(<<>>, <<>>)
           [] v.svas \in {"EPHEMERAL", "PERSISTENT"} -> regenerateAndMemorize(v, p, g)
           [] v.svas = "VOLATILE" -> regenerate(v, p, g)

LeafDispatch(v, p, g) ==
    IF isDefined(v, p)
    THEN CASE v.svas \in {"CONSTANT", "PERSISTENT"} -> use(v, p)
           [] v.svas = "EPHEMERAL" -> regenerateAndMemorize(v, p, g)
           [] v.svas = "VOLATILE" -> regenerate(v, p, g)
    ELSE CASE v.svas = "CONSTANT" -> Ok(<<>>, <<>>)
           [] v.svas \in {"EPHEMERAL", "PERSISTENT"} -> regenerateAndMemorize(v, p, g)
           [] v.svas = "VOLATILE" -> regenerate(v, p, g)

LeafSpecialize(v, p, fuzz, g, gm, mu) ==
    LET fz == LeafFuzzLookup(v, fuzz)
    IN  IF ~fz.isNone /\ fz.mode = "GENERATE"
        THEN Ok(<<Traced(addResult(p, v, gm), "generate", v)>>,
                <<<<"generate", v.id>>>>)
        ELSE IF v.svas = "None"
        THEN Raise("Exception", <<>>)
        ELSE LET r == LeafDispatch(v, p, g)
             IN  IF ~fz.isNone /\ fz.mode = "MUTATE" /\ Len(r.paths) > 0
                 THEN LET p1 == r.paths[1]
                          m1 == Traced(assignData(p1, Mutate(mu, getData(p1, v)), v),
                                       "mutate", v)
                      IN  Ok([r.paths EXCEPT ![1] = m1],
                             Append(r.called, <<"mutate", v.id>>))
                 ELSE r

-----------------------------------------------------------------------------
(* Agg.  An Agg is [kind, id, children, last_optional]; a child is a leaf, *)
(* an Agg or the SELF marker.                                              *)

Agg(id, children, lastOptional) ==
    [kind |-> "Agg", id |-> id, children |-> children, last_optional |-> lastOptional]

\* the children loop of Agg.parse keeps (parsingPaths, all_parsed)
LoopState(exc, paths, allParsed, called) ==
    [exc |-> exc, paths |-> paths, all_parsed |-> allParsed, called |-> called]

\* a variant in which the last child is never optional
OptionalNeverElided(a, i, remaining) == FALSE

\* line 276: nothing remains after the second-to-last child (child i of n,
\* i = n - 1) of an Agg whose last child is optional
OptionalElided(a, i, remaining) ==
    Len(remaining) = 0 /\ i = Len(a.children) - 1 /\ a.last_optional

\* lines 268-287: the paths one child path list contributes.  before is the
\* data of the child before its parse; the remaining data goes to the next
\* child unless it is empty before an optional last child
RECURSIVE AggChildPaths(_, _, _, _, _, _)
AggChildPaths(a, i, before, cps, k, acc) ==
    IF k > Len(cps) THEN acc
    ELSE LET n == Len(a.children)
             cp == cps[k]
             after == getData(cp, a.children[i])
             remaining == Drop(before, Len(after))
             optional == OptionalElided(a, i, remaining)
             cp2 == IF i < n /\ ~optional
                    THEN assignData(cp, remaining, a.children[i + 1])
                    ELSE cp
         IN  AggChildPaths(a, i, before, cps, k + 1,
                 [acc EXCEPT !.paths = Append(@, cp2),
                             !.all_parsed = @ \/ (i < n /\ optional)])

\* result concatenation, lines 296-307: the data of every child that has some
RECURSIVE ChildrenData(_, _, _)
ChildrenData(a, p, i) ==
    IF i > Len(a.children) THEN <<>>
    ELSE (IF hasData(p, a.children[i]) THEN getData(p, a.children[i]) ELSE <<>>)
         \o ChildrenData(a, p, i + 1)

AnyChildData(a, p) == \E i \in 1..Len(a.children) : hasData(p, a.children[i])

RECURSIVE ParseVar(_, _), AggParse(_, _), AggParseLoop(_, _, _), AggParsePaths(_, _, _, _, _)
RECURSIVE AggParsePathsKeepsRejected(_, _, _, _, _)

\* the parse method of a child; the SELF marker is a class without one
ParseVar(v, p) ==
    CASE v.kind = "Data" -> LeafParse(v, p)
      [] v.kind = "Agg" -> AggParse(v, p)
      [] v.kind = "SELF" -> Raise("AttributeError", <<>>)

\* a variant in which a path the child rejects is kept as it is
AggParsePathsKeepsRejected(a, i, pps, k, acc) ==
    IF k > Len(pps) \/ acc.exc # "none" THEN acc
    ELSE LET before == getData(pps[k], a.children[i])
             r == ParseVar(a.children[i], pps[k])
         IN  IF r.exc # "none"
             THEN LoopState(r.exc, <<>>, acc.all_parsed, acc.called \o r.called)
             ELSE AggParsePathsKeepsRejected(a, i, pps, k + 1,
                      AggChildPaths(a, i, before,
                          IF Len(r.paths) = 0 THEN <<pps[k]>> ELSE r.paths, 1,
                          [acc EXCEPT !.called = @ \o r.called]))

\* lines 260-287: child i parses every path of st.paths, from path k on
AggParsePaths(a, i, pps, k, acc) ==
    IF k > Len(pps) \/ acc.exc # "none" THEN acc
    ELSE LET before == getData(pps[k], a.children[i])
             r == ParseVar(a.children[i], pps[k])
         IN  IF r.exc # "none"
             THEN LoopState(r.exc, <<>>, acc.all_parsed, acc.called \o r.called)
             ELSE AggParsePaths(a, i, pps, k + 1,
                      AggChildPaths(a, i, before, r.paths, 1,
                          [acc EXCEPT !.called = @ \o r.called]))

\* lines 246-293: the loop over the children, from child i on
AggParseLoop(a, i, st) ==
    IF i > Len(a.children) \/ st.all_parsed THEN st
    ELSE LET st2 == AggParsePaths(a, i, st.paths, 1,
                        LoopState("none", <<>>, st.all_parsed, st.called))
         IN  IF st2.exc # "none" \/ Len(st2.paths) = 0 THEN st2
             ELSE AggParseLoop(a, i + 1, st2)

AggParse(a, p) ==
    IF Len(a.children) = 0 THEN Raise("IndexError", <<>>)
    ELSE LET data == getData(p, a)
             p0 == assignData(p, data, a.children[1])
             st == AggParseLoop(a, 1, LoopState("none", <<p0>>, FALSE, <<>>))
         IN  IF st.exc # "none" THEN Raise(st.exc, st.called)
             ELSE IF Len(st.paths) = 0 THEN Ok(<<>>, st.called)
             ELSE IF \E k \in 1..Len(st.paths) : ~AnyChildData(a, st.paths[k])
             THEN Raise("AttributeError", st.called)
             ELSE Ok([k \in 1..Len(st.paths) |->
                        Traced(addResult(st.paths[k], a, ChildrenData(a, st.paths[k], 1)),
                               "parse", a)],
                     st.called)

-----------------------------------------------------------------------------
(* Agg.specialize.  The random draws are an oracle o: o.gen[id][d] is the  *)
(* value the data type of leaf id generates and o.opt[id][d] the outcome   *)
(* of random.choice([True, False]) for the optional last child of Agg id,  *)
(* at depth d of the recursion through SELF.                               *)

\* depth at which the interpreter gives up an unbounded recursion
RecLimit == 3

IsSelf(c) == c.kind = "SELF"

\* lines 358-371: the data of every child but SELF that has some
RECURSIVE SpecChildrenData(_, _, _)
SpecChildrenData(a, p, i) ==
    IF i > Len(a.children) THEN <<>>
    ELSE (IF ~IsSelf(a.children[i]) /\ hasData(p, a.children[i])
          THEN getData(p, a.children[i]) ELSE <<>>)
         \o SpecChildrenData(a, p, i + 1)

AnySpecChildData(a, p) ==
    \E i \in 1..Len(a.children) : ~IsSelf(a.children[i]) /\ hasData(p, a.children[i])

SpecState(exc, paths, taken, called) ==
    [exc |-> exc, paths |-> paths, taken |-> taken, called |-> called]

RECURSIVE SpecializeVar(_, _, _, _, _), AggSpecialize(_, _, _, _, _),
          AggSpecLoop(_, _, _, _, _, _), AggSpecPaths(_, _, _, _, _, _, _, _),
          AggSpecResults(_, _, _, _, _, _, _)

SpecializeVar(v, p, fuzz, o, d) ==
    CASE v.kind = "Data" -> LeafSpecialize(v, p, fuzz, o.gen[v.id][d], o.gm, o.mu)
      [] v.kind = "Agg" -> AggSpecialize(v, p, fuzz, o, d)

\* lines 335-347: child idx specializes every path of sps, from path k on
AggSpecPaths(a, idx, sps, k, fuzz, o, d, acc) ==
    IF k > Len(sps) \/ acc.exc # "none" THEN acc
    ELSE LET r == IF IsSelf(a.children[idx]) THEN Ok(<<sps[k]>>, <<>>)
                  ELSE SpecializeVar(a.children[idx], sps[k], fuzz, o, d)
         IN  IF r.exc # "none"
             THEN SpecState(r.exc, <<>>, acc.taken, acc.called \o r.called)
             ELSE AggSpecPaths(a, idx, sps, k + 1, fuzz, o, d,
                      [acc EXCEPT !.paths = @ \o r.paths, !.called = @ \o r.called])

\* lines 319-349: the loop over the children, from child idx on
AggSpecLoop(a, idx, st, fuzz, o, d) ==
    IF idx > Len(a.children) \/ st.exc # "none" THEN st
    ELSE IF idx = Len(a.children) /\ a.last_optional /\ ~o.opt[a.id][d]
    THEN [st EXCEPT !.taken = FALSE]
    ELSE AggSpecLoop(a, idx + 1,
             AggSpecPaths(a, idx, st.paths, 1, fuzz, o, d,
                 SpecState("none", <<>>, st.taken, st.called)),
             fuzz, o, d)

\* lines 358-388: the result of every path, from path k on
AggSpecResults(a, sps, k, taken, fuzz, o, d) ==
    IF k > Len(sps) THEN Ok(<<>>, <<>>)
    ELSE LET p == sps[k]
             n == Len(a.children)
         IN  IF ~AnySpecChildData(a, p)
             THEN Raise("AttributeError", <<>>)
             ELSE LET value == SpecChildrenData(a, p, 1)
                      rec == IF IsSelf(a.children[n]) /\ taken
                             THEN AggSpecialize(a, p, fuzz, o, d + 1)
                             ELSE Ok(<<>>, <<>>)
                      p2 == IF Len(rec.paths) > 0 THEN rec.paths[1] ELSE p
                      value2 == IF Len(rec.paths) > 0 /\ hasData(p2, a)
                                THEN value \o getData(p2, a) ELSE value
                      rest == AggSpecResults(a, sps, k + 1, taken, fuzz, o, d)
                  IN  IF rec.exc # "none" THEN Raise(rec.exc, rec.called)
                      ELSE IF rest.exc # "none"
                      THEN Raise(rest.exc, rec.called \o rest.called)
                      ELSE Ok(<<Traced(addResult(p2, a, value2), "specialize", a)>>
                                  \o rest.paths,
                              rec.called \o rest.called)

AggSpecialize(a, p, fuzz, o, d) ==
    IF d > RecLimit THEN Raise("RecursionError", <<>>)
    ELSE LET st == AggSpecLoop(a, 1, SpecState("none", <<p>>, TRUE, <<>>), fuzz, o, d)
         IN  IF st.exc # "none" THEN Raise(st.exc, st.called)
             ELSE IF Len(st.paths) = 0 THEN Ok(<<>>, st.called)
             ELSE LET r == AggSpecResults(a, st.paths, 1, st.taken, fuzz, o, d)
                  IN  IF r.exc # "none" THEN Raise(r.exc, st.called \o r.called)
                      ELSE Ok(r.paths, st.called \o r.called)

-----------------------------------------------------------------------------
(* The domains the Agg operations are run on.  Leaves have ids 1..3, the   *)
(* Aggs ids 4 (inner) and 5 (outer, the domain of the field).              *)

ConstLeaves(id) == {ConstLeaf(id, <<b>>) : b \in Byte}
\* leaves of one unit: a constant or an ephemeral value
UnitLeaves(id) == ConstLeaves(id) \cup {EphLeaf(id, 1, 1)}
\* ... and an ephemeral value of one or two units
SizedLeaves(id) == UnitLeaves(id) \cup {EphLeaf(id, 1, 2)}

FlatTrees ==
    {Agg(5, <<l1, l2>>, lo) :
        l1 \in SizedLeaves(1), l2 \in SizedLeaves(2), lo \in BOOLEAN}
SingleTrees ==
    {Agg(5, <<l1>>, lo) : l1 \in SizedLeaves(1), lo \in BOOLEAN}
TripleTrees ==
    {Agg(5, <<l1, l2, l3>>, lo) :
        l1 \in UnitLeaves(1), l2 \in UnitLeaves(2), l3 \in ConstLeaves(3), lo \in BOOLEAN}
NestedTrees ==
    {Agg(5, <<Agg(4, <<l1, l2>>, lo1), l3>>, lo2) :
        l1 \in ConstLeaves(1), l2 \in UnitLeaves(2), l3 \in UnitLeaves(3),
        lo1 \in BOOLEAN, lo2 \in BOOLEAN}
SelfTrees(leaves) ==
    {Agg(5, <<l1, SELF>>, lo) : l1 \in leaves, lo \in BOOLEAN}

ParseTrees ==
    FlatTrees \cup SingleTrees \cup TripleTrees
        \cup NestedTrees \cup SelfTrees(SizedLeaves(1))
SpecTrees ==
    FlatTrees \cup SingleTrees \cup TripleTrees
        \cup NestedTrees \cup SelfTrees(UnitLeaves(1))

RECURSIVE LeavesOf(_), AggsOf(_), HasSelf(_)
LeavesOf(t) ==
    CASE t.kind = "Data" -> {t}
      [] t.kind = "SELF" -> {}
      [] t.kind = "Agg" -> UNION {LeavesOf(t.children[i]) : i \in 1..Len(t.children)}
AggsOf(t) ==
    CASE t.kind = "Agg" -> {t} \cup UNION {AggsOf(t.children[i]) : i \in 1..Len(t.children)}
      [] OTHER -> {}
HasSelf(t) ==
    CASE t.kind = "SELF" -> TRUE
      [] t.kind = "Data" -> FALSE
      [] t.kind = "Agg" -> \E i \in 1..Len(t.children) : HasSelf(t.children[i])

LeafWithId(t, i) == CHOOSE l \in LeavesOf(t) : l.id = i
AggWithId(t, i) == CHOOSE a \in AggsOf(t) : a.id = i
LeafIds(t) == {l.id : l \in LeavesOf(t)}
AggIds(t) == {a.id : a \in AggsOf(t)}

Depths == 1..RecLimit

\* the draws of one leaf: one per depth of a recursive domain, else a single one
GenDraws(t, i) ==
    IF i \notin LeafIds(t) THEN {<<>>}
    ELSE IF HasSelf(t) THEN [Depths -> Generable(LeafWithId(t, i))]
    ELSE {[d \in Depths |-> g] : g \in Generable(LeafWithId(t, i))}

\* the draws of one Agg: none is made unless its last child is optional; a
\* recursive Agg elects not to recurse at the last depth at the latest
OptDraws(t, i) ==
    IF i \notin AggIds(t) THEN {<<>>}
    ELSE IF ~AggWithId(t, i).last_optional THEN {[d \in Depths |-> TRUE]}
    ELSE IF HasSelf(t) THEN {c \in [Depths -> BOOLEAN] : ~c[RecLimit]}
    ELSE {[d \in Depths |-> b] : b \in BOOLEAN}

Oracles(t) ==
    {[gen |-> [i \in Ids |-> IF i = 1 THEN g1 ELSE IF i = 2 THEN g2
                            ELSE IF i = 3 THEN g3 ELSE <<>>],
      opt |-> [i \in Ids |-> IF i = 4 THEN c4 ELSE IF i = 5 THEN c5 ELSE <<>>],
      gm |-> <<>>, mu |-> "cut"] :
        g1 \in GenDraws(t, 1), g2 \in GenDraws(t, 2), g3 \in GenDraws(t, 3),
        c4 \in OptDraws(t, 4), c5 \in OptDraws(t, 5)}

\* a fresh parsing path holding the data to parse for the domain
ParsingPathFor(t, data) == assignData(EmptyPath, data, t)

\* Field.abstract accepts the data when a path of the domain's parse consumed
\* all of it; the value of the field is the result of the domain
Accepted(t, data, r) ==
    r.exc = "none" /\ \E k \in 1..Len(r.paths) : getData(r.paths[k], t) = data

-----------------------------------------------------------------------------
(* Two Fuzz objects "A" and "B".  The dicts a constructor creates are named *)
(* after the object they are created for: types[x] and fields[x] are the   *)
(* dicts that x.mappingTypesMutators and x.mappingFieldsMutators refer to, *)
(* class names the object whose dicts the class attributes                 *)
(* Fuzz.mappingTypesMutators and Fuzz.mappingFieldsMutators refer to, and  *)
(* counterMax is Mutator.globalCounterMax.                                 *)

FuzzNames == {"A", "B"}

FuzzesInitial ==
    [created |-> [x \in FuzzNames |-> FALSE],
     class |-> "none",
     types |-> [x \in FuzzNames |-> FuzzInitial.types],
     fields |-> [x \in FuzzNames |-> FuzzInitial.fields],
     counterMax |-> 0,
     calls |-> 0]

\* x = Fuzz(counterMax) (lines 253-263): the global counter limit is set,
\* both class attributes are bound to new dicts and x refers to these
FuzzNew(fz, x, counterMax) ==
    [fz EXCEPT !.created[x] = TRUE,
               !.class = x,
               !.types[x] = FuzzInitial.types,
               !.fields[x] = FuzzInitial.fields,
               !.counterMax = counterMax,
               !.calls = @ + 1]

\* the mappings x.set(key) for a field or a variable works on: its own
\* mappingFieldsMutators, and Fuzz.mappingTypesMutators (line 545)
FieldView(fz, x) == [fields |-> fz.fields[x], types |-> fz.types[fz.class]]

\* the mappings x.set(type) works on: its own (lines 346-352)
TypeView(fz, x) == [fields |-> fz.fields[x], types |-> fz.types[x]]

\* x.set(key, **kwargs) (lines 343-364)
FuzzSetOn(fz, x, k, kwargs) ==
    IF IsTypeKey(k)
    THEN [fz EXCEPT !.types[x] = FuzzSet(TypeView(fz, x), k, kwargs).types,
                    !.calls = @ + 1]
    ELSE [fz EXCEPT !.fields[x] = FuzzSet(FieldView(fz, x), k, kwargs).fields,
                    !.types[fz.class] = FuzzSet(FieldView(fz, x), k, kwargs).types,
                    !.calls = @ + 1]

\* x.get(key) (lines 415-429)
FuzzGetOn(fz, x, k) == FuzzGet([fields |-> fz.fields[x]], k)

\* x.counterMax (lines 602-604)
CounterMaxOf(fz, x) == fz.counterMax

-----------------------------------------------------------------------------
(* State machine *)

Idle == [exc |-> "none"]

Init ==
    /\ op = "init"
    /\ arg = Idle
    /\ res = Idle
    /\ fuzzMap = FuzzInitial
    /\ node = [children |-> <<>>, exc |-> "none"]
    /\ ty = [built |-> FALSE]
    /\ mutator = [built |-> FALSE]
    /\ stack = <<>>
    /\ fuzzes = FuzzesInitial
    /\ exec = [active |-> FALSE, pc |-> "idle"]

\* Agg.parse of a domain on a fresh path
DoAggParse ==
    /\ op = "init"
    /\ \E t \in ParseTrees, data \in SeqsOf(0, MaxData) :
           /\ op' = "AggParse"
           /\ arg' = [tree |-> t, data |-> data]
           /\ res' = ParseVar(t, ParsingPathFor(t, data))
           /\ UNCHANGED <<fuzzMap, node, ty, mutator, stack, fuzzes, exec>>

\* Agg.specialize of a domain on a fresh path, without fuzzing
DoAggSpecialize ==
    /\ op = "init"
    /\ \E t \in SpecTrees :
           \E o \in Oracles(t) :
               /\ op' = "AggSpecialize"
               /\ arg' = [tree |-> t, oracle |-> o]
               /\ res' = AggSpecialize(t, EmptyPath, NoFuzz, o, 1)
               /\ UNCHANGED <<fuzzMap, node, ty, mutator, stack, fuzzes, exec>>

\* specialize, then parse the data of the first specializing path
DoRoundTrip ==
    /\ op = "init"
    /\ \E t \in SpecTrees :
           \E o \in Oracles(t) :
               \E rs \in {AggSpecialize(t, EmptyPath, NoFuzz, o, 1)} :
                   \E data \in {IF rs.exc = "none" /\ Len(rs.paths) > 0
                                THEN getData(rs.paths[1], t) ELSE <<>>} :
                       /\ op' = "RoundTrip"
                       /\ arg' = [tree |-> t, oracle |-> o]
                       /\ res' = [exc |-> rs.exc,
                                  produced |-> rs.exc = "none" /\ Len(rs.paths) > 0,
                                  data |-> data,
                                  spec |-> rs,
                                  parse |-> IF rs.exc = "none" /\ Len(rs.paths) > 0
                                            THEN ParseVar(t, ParsingPathFor(t, data))
                                            ELSE Ok(<<>>, <<>>)]
                       /\ UNCHANGED <<fuzzMap, node, ty, mutator, stack, fuzzes, exec>>

NextAgg == DoAggParse \/ DoAggSpecialize \/ DoRoundTrip

SpecAgg == Init /\ [][NextAgg]_vars

-----------------------------------------------------------------------------
(* Properties of Agg, checked under SpecAgg *)

\* C1: round trip.  For a domain built of CONSTANT and EPHEMERAL leaves
\* composed with Agg (last_optional included, the SELF marker left out), the
\* data produced by specialize is accepted by the parse of the same domain,
\* and the value recovered for the field is exactly the data it contributed.
RoundTripAccepted ==
    (op = "RoundTrip" /\ ~HasSelf(arg.tree) /\ res.produced)
        => Accepted(arg.tree, res.data, res.parse)

\* data made of k >= 1 consecutive values, each accepted by the leaf x
RECURSIVE IsValuesOf(_, _)
IsValuesOf(x, data) ==
    /\ Len(data) >= 1
    /\ \E s \in 1..Len(data) :
          /\ IF x.hasValue THEN Prefix(data, s) = x.value
                           ELSE s >= x.min /\ s <= x.max
          /\ (s = Len(data) \/ IsValuesOf(x, Drop(data, s)))

DirectRecursion(t) ==
    /\ Len(t.children) = 2
    /\ t.children[1].kind = "Data"
    /\ IsSelf(t.children[2])
    /\ t.last_optional

\* C7: parsing with a directly recursive Agg([x, SELF], last_optional=True)
\* accepts any data made of k >= 1 consecutive values of x: a non-empty list
\* of paths is returned without exception, and the result of the Agg on an
\* accepting path is the whole data.
SelfParseAccepts ==
    (op = "AggParse" /\ DirectRecursion(arg.tree)
        /\ IsValuesOf(arg.tree.children[1], arg.data))
        => /\ res.exc = "none"
           /\ Len(res.paths) > 0
           /\ Accepted(arg.tree, arg.data, res)

\* whether the last child of the Agg is specialized: always unless it is
\* optional, and then when the draw elects it
OptionTaken(a, o) == ~a.last_optional \/ o.opt[a.id][1]

\* the data of the children of a on path p, in child order
ConcatOfChildren(a, p, taken) ==
    Flatten([i \in 1..(IF taken THEN Len(a.children) ELSE Len(a.children) - 1)
                |-> getData(p, a.children[i])])

\* C8: on an Agg without SELF, Agg.specialize never fails other than by
\* returning the empty list, and the result of the Agg on every returned path
\* is the concatenation in child order of the children's data: of all the
\* children, or of all but the last when the optional last child is not taken
\* (the empty value when the Agg has that single child).
SpecializeConcatenates ==
    (op = "AggSpecialize" /\ ~HasSelf(arg.tree))
        => /\ res.exc = "none"
           /\ \A k \in 1..Len(res.paths) :
                 /\ hasData(res.paths[k], arg.tree)
                 /\ getData(res.paths[k], arg.tree)
                      = ConcatOfChildren(arg.tree, res.paths[k],
                                         OptionTaken(arg.tree, arg.oracle))

-----------------------------------------------------------------------------
(* Leaf variables and the fuzzing configuration.  The leaf under test has  *)
(* id 1 and is the domain of the field FieldKey(1).                        *)

\* the SVAS of a leaf, or None when none is assigned
LeafSvas == SVAS \cup {"None"}

TestLeaves ==
    {Leaf(1, s, TRUE, <<b>>, 0, 0) : s \in LeafSvas, b \in Byte}
        \cup {Leaf(1, s, FALSE, <<>>, 1, 2) : s \in LeafSvas}

\* a fresh path, or one whose memory holds a value for the leaf
TestPaths(v) == {EmptyPath} \cup {memorize(EmptyPath, v, <<b>>) : b \in {1}}

FuzzKeys == {FieldKey(1), VarKey(1), TypeKey}
FuzzPhase == {"init", "FuzzNew", "FuzzSet", "FuzzUnset"}

\* Fuzz(): the constructor resets the mappings
DoFuzzNew ==
    /\ op \in FuzzPhase
    /\ op' = "FuzzNew"
    /\ arg' = Idle
    /\ res' = Idle
    /\ fuzzMap' = FuzzInitial
    /\ UNCHANGED <<node, ty, mutator, stack, fuzzes, exec>>

\* fuzz.set(key, **kwargs)
DoFuzzSet ==
    /\ op \in FuzzPhase
    /\ \E k \in FuzzKeys, kw \in Kwargs :
           /\ op' = "FuzzSet"
           /\ arg' = [key |-> k, kwargs |-> kw]
           /\ res' = Idle
           /\ fuzzMap' = FuzzSet(fuzzMap, k, kw)
           /\ UNCHANGED <<node, ty, mutator, stack, fuzzes, exec>>

\* fuzz.unset(key) for a field or a variable
DoFuzzUnset ==
    /\ op \in FuzzPhase
    /\ \E k \in FuzzKeys \ {TypeKey} :
           /\ op' = "FuzzUnset"
           /\ arg' = [key |-> k]
           /\ res' = Idle
           /\ fuzzMap' = FuzzUnset(fuzzMap, k)
           /\ UNCHANGED <<node, ty, mutator, stack, fuzzes, exec>>

\* leaf.parse(parsingPath) with data assigned to the leaf
DoLeafParse ==
    /\ op = "init"
    /\ \E v \in TestLeaves, data \in SeqsOf(0, MaxData) :
           \E p \in TestPaths(v) :
               /\ op' = "LeafParse"
               /\ arg' = [leaf |-> v, path |-> assignData(p, data, v)]
               /\ res' = LeafParse(v, assignData(p, data, v))
               /\ UNCHANGED <<fuzzMap, node, ty, mutator, stack, fuzzes, exec>>

\* leaf.specialize(path, fuzz): fuzz is None or the Fuzz object as configured
\* so far; after records the configuration call that came last
DoLeafSpecialize ==
    /\ op \in FuzzPhase
    /\ \E v \in TestLeaves, fuzzed \in BOOLEAN, gm \in SeqsOf(1, 1), mu \in Mutations :
           \E p \in TestPaths(v), g \in Generable(v) :
               /\ op' = "LeafSpecialize"
               /\ arg' = [leaf |-> v, path |-> p, fuzzed |-> fuzzed,
                          g |-> g, gm |-> gm, mu |-> mu,
                          after |-> [op |-> op, arg |-> arg]]
               /\ res' = LeafSpecialize(v, p,
                             IF fuzzed THEN WithFuzz(fuzzMap) ELSE NoFuzz, g, gm, mu)
               /\ UNCHANGED <<fuzzMap, node, ty, mutator, stack, fuzzes, exec>>

NextLeaf == DoFuzzNew \/ DoFuzzSet \/ DoFuzzUnset \/ DoLeafParse \/ DoLeafSpecialize

SpecLeaf == Init /\ [][NextLeaf]_vars

-----------------------------------------------------------------------------
(* Properties of leaf variables, checked under SpecLeaf *)

SameMemory(p, q) == p.mhas = q.mhas /\ p.mval = q.mval

\* C2: AbstractVariableLeaf.parse selects, from (defined, SVAS): valueCMP for
\* a defined CONSTANT or PERSISTENT leaf, learn for an EPHEMERAL leaf and for
\* an undefined PERSISTENT leaf, domainCMP for a VOLATILE leaf; an undefined
\* CONSTANT leaf returns the empty list and calls none of them.  Otherwise
\* the result is the list returned by the selected operation.
ParseDispatch ==
    (op = "LeafParse" /\ arg.leaf.svas \in SVAS)
        => LET v == arg.leaf
               p == arg.path
               sel == IF v.svas = "EPHEMERAL" THEN "learn"
                      ELSE IF v.svas = "VOLATILE" THEN "domainCMP"
                      ELSE IF isDefined(v, p) THEN "valueCMP"
                      ELSE IF v.svas = "PERSISTENT" THEN "learn"
                      ELSE "none"
           IN  /\ res.exc = "none"
               /\ IF sel = "none"
                  THEN res.paths = <<>> /\ res.called = <<>>
                  ELSE /\ res.called = <<<<sel, v.id>>>>
                       /\ res.paths = (CASE sel = "learn" -> learn(v, p).paths
                                         [] sel = "valueCMP" -> valueCMP(v, p).paths
                                         [] sel = "domainCMP" -> domainCMP(v, p).paths)

\* an undefined PERSISTENT leaf has learnt the data it was given
ParseDispatchWitness ==
    /\ op = "LeafParse"
    /\ arg.leaf.svas = "PERSISTENT"
    /\ ~isDefined(arg.leaf, arg.path)
    /\ res.called = <<<<"learn", arg.leaf.id>>>>
    /\ Len(res.paths) > 0
    /\ hasValue(res.paths[1], arg.leaf)

\* C3: without a fuzzing configuration, AbstractVariableLeaf.specialize
\* selects use for a defined CONSTANT or PERSISTENT leaf (the existing value
\* is the result, nothing is generated), regenerateAndMemorize for an
\* EPHEMERAL leaf and for an undefined PERSISTENT leaf, regenerate for a
\* VOLATILE leaf (the memory is left as it was); an undefined CONSTANT leaf
\* returns the empty list and nothing is generated.
SpecializeDispatch ==
    (op = "LeafSpecialize" /\ ~arg.fuzzed /\ arg.leaf.svas \in SVAS)
        => LET v == arg.leaf
               p == arg.path
               sel == IF v.svas = "EPHEMERAL" THEN "regenerateAndMemorize"
                      ELSE IF v.svas = "VOLATILE" THEN "regenerate"
                      ELSE IF isDefined(v, p) THEN "use"
                      ELSE IF v.svas = "PERSISTENT" THEN "regenerateAndMemorize"
                      ELSE "none"
           IN  /\ res.exc = "none"
               /\ IF sel = "none"
                  THEN res.paths = <<>> /\ res.called = <<>>
                  ELSE /\ res.called = <<<<sel, v.id>>>>
                       /\ Len(res.paths) = 1
                       /\ hasData(res.paths[1], v)
                       /\ CASE sel = "use" ->
                                 /\ getData(res.paths[1], v) = CurrentValue(v, p)
                                 /\ SameMemory(res.paths[1], p)
                            [] sel = "regenerate" ->
                                 /\ getData(res.paths[1], v) = arg.g
                                 /\ SameMemory(res.paths[1], p)
                            [] sel = "regenerateAndMemorize" ->
                                 /\ getData(res.paths[1], v) = arg.g
                                 /\ hasValue(res.paths[1], v)
                                 /\ res.paths[1].mval[v.id] = arg.g

\* a defined EPHEMERAL leaf was regenerated to a value that differs from the
\* one it had, and the new value was memorized
SpecializeDispatchWitness ==
    /\ op = "LeafSpecialize"
    /\ ~arg.fuzzed
    /\ arg.leaf.svas = "EPHEMERAL"
    /\ isDefined(arg.leaf, arg.path)
    /\ res.called = <<<<"regenerateAndMemorize", arg.leaf.id>>>>
    /\ Len(res.paths) = 1
    /\ getData(res.paths[1], arg.leaf) # CurrentValue(arg.leaf, arg.path)

\* the configuration holds a mutator of this mode for the domain of the
\* leaf's field
Designated(v, mode) ==
    /\ ~FuzzGet(fuzzMap, VarKey(v.id)).isNone
    /\ FuzzGet(fuzzMap, VarKey(v.id)).mode = mode

\* C4: after Fuzz.set(f) for the field f of the leaf, in the default GENERATE
\* mode, specializing the leaf with this configuration returns exactly the
\* input path, whose result for the leaf is the output of the mutator's
\* generate(); none of use, regenerate, regenerateAndMemorize is invoked,
\* whatever the SVAS of the leaf, None included.
FuzzGenerateBypass ==
    (op = "LeafSpecialize" /\ arg.fuzzed
        /\ arg.after.op = "FuzzSet"
        /\ arg.after.arg.key = FieldKey(arg.leaf.id)
        /\ arg.after.arg.kwargs.mode = "absent"
        /\ Designated(arg.leaf, "GENERATE"))
        => /\ res.exc = "none"
           /\ res.called = <<<<"generate", arg.leaf.id>>>>
           /\ Len(res.paths) = 1
           /\ getData(res.paths[1], arg.leaf) = arg.gm
           /\ SameMemory(res.paths[1], arg.path)

\* C5: when the configuration designates the leaf's field with a mutator in
\* MUTATE mode, specialize produces the legitimate value by the SVAS dispatch
\* and replaces the data of the first returned path, and of that one only, by
\* mutate(legitimate value); when the dispatch produced no path, mutate is
\* not called and the empty list is returned.
FuzzMutateFirstPath ==
    (op = "LeafSpecialize" /\ arg.fuzzed /\ arg.leaf.svas \in SVAS
        /\ Designated(arg.leaf, "MUTATE"))
        => LET v == arg.leaf
               legit == LeafDispatch(v, arg.path, arg.g)
           IN  /\ res.exc = "none"
               /\ Len(res.paths) = Len(legit.paths)
               /\ IF Len(legit.paths) = 0
                  THEN res.called = legit.called
                  ELSE /\ res.called = Append(legit.called, <<"mutate", v.id>>)
                       /\ getData(res.paths[1], v)
                            = Mutate(arg.mu, getData(legit.paths[1], v))
                       /\ \A k \in 2..Len(res.paths) : res.paths[k] = legit.paths[k]

-----------------------------------------------------------------------------
(* DomainFactory.normalizeDomain and the children setter of a node.  A     *)
(* domain handed to them is a raw value (an int, a str, bytes), a Data     *)
(* leaf, an Agg that was built before, the SELF marker, or an object that  *)
(* is no domain (None).                                                    *)

RawValue(id, value) == [kind |-> "Raw", id |-> id, value |-> value]
NoDomain == [kind |-> "Invalid", id |-> 6]

Normalized(d) == [exc |-> "none", value |-> d]
NotNormalized(e) == [exc |-> e, value |-> NoDomain]

RECURSIVE normalizeDomain(_), normalizeChildren(_, _, _), setChildren(_, _, _)
RECURSIVE normalizeAlternateDomain(_)

\* an alternative given as a Python list, and an Alt node
List(id, children) == [kind |-> "List", id |-> id, children |-> children]
Alt(id, children) == [kind |-> "Alt", id |-> id, children |-> children]

\* isinstance(elt, AbstractVariableNode)
IsNode(d) == d.kind \in {"Agg", "Alt"}

\* uElt == elt for leaves: equality by value (all that a leaf is made of but
\* the identity of the object)
LeafEq(a, b) ==
    /\ a.kind = "Data"
    /\ b.kind = "Data"
    /\ [f \in DOMAIN a \ {"id"} |-> a[f]] = [f \in DOMAIN b \ {"id"} |-> b[f]]

\* lines 126-137: nodes are all kept, a leaf is kept when no element kept
\* before it is equal to it
RECURSIVE uniqResult(_, _, _)
uniqResult(tmp, i, uniq) ==
    IF i > Len(tmp) THEN uniq
    ELSE IF IsNode(tmp[i]) \/ ~\E k \in 1..Len(uniq) : LeafEq(uniq[k], tmp[i])
    THEN uniqResult(tmp, i + 1, Append(uniq, tmp[i]))
    ELSE uniqResult(tmp, i + 1, uniq)

\* DomainFactory.__normalizeAggregateDomain, the loop: every child of the Agg
\* is normalized, the SELF marker like the others
normalizeChildren(cs, i, acc) ==
    IF i > Len(cs) THEN [exc |-> "none", children |-> acc]
    ELSE LET r == normalizeDomain(cs[i])
         IN  IF r.exc # "none" THEN [exc |-> r.exc, children |-> acc]
             ELSE normalizeChildren(cs, i + 1, Append(acc, r.value))

\* the children setter, from child idx on: acc is _children so far.  An
\* exception leaves _children with the children appended before it.
setChildren(cs, idx, acc) ==
    IF idx > Len(cs) THEN [exc |-> "none", children |-> acc]
    ELSE IF IsSelf(cs[idx])
    THEN (IF idx # Len(cs)
          THEN [exc |-> "ValueError", children |-> acc]
          ELSE setChildren(cs, idx + 1, Append(acc, cs[idx])))
    ELSE LET r == normalizeDomain(cs[idx])
         IN  IF r.exc # "none" THEN [exc |-> r.exc, children |-> acc]
             ELSE setChildren(cs, idx + 1, Append(acc, r.value))

\* AbstractType.normalize(data).buildDataRepresentation() for a raw value: a
\* CONSTANT Data of that value; what is no data raises TypeError
normalizeLeafDomain(d) ==
    CASE d.kind = "Data" -> Normalized(d)
      [] d.kind = "Raw" -> Normalized(ConstLeaf(d.id, d.value))
      [] OTHER -> NotNormalized("TypeError")

\* DomainFactory.__normalizeAlternateDomain: a list of one element is
\* normalized as a leaf; otherwise the children are normalized, the equal
\* leaves are dropped, and a single alternative left is returned itself.  A
\* list becomes a new Alt (of the id of the list), an Alt is kept.
normalizeAlternateDomain(d) ==
    IF d.kind = "List" /\ Len(d.children) = 1
    THEN normalizeLeafDomain(d.children[1])
    ELSE LET n == normalizeChildren(d.children, 1, <<>>)
         IN  IF n.exc # "none" THEN NotNormalized(n.exc)
             ELSE LET uniq == uniqResult(n.children, 1, <<>>)
                  IN  IF Len(uniq) = 1 THEN Normalized(uniq[1])
                      ELSE Normalized(Alt(d.id, uniq))

normalizeDomain(d) ==
    IF d.kind \in {"List", "Alt"} THEN normalizeAlternateDomain(d)
    ELSE IF d.kind = "Agg"
    THEN LET n == normalizeChildren(d.children, 1, <<>>)
         IN  IF n.exc # "none" THEN NotNormalized(n.exc)
             ELSE LET s == setChildren(n.children, 1, <<>>)
                  IN  IF s.exc # "none" THEN NotNormalized(s.exc)
                      ELSE Normalized([d EXCEPT !.children = s.children])
    ELSE normalizeLeafDomain(d)

\* the domains given as children: values, a leaf, Aggs built before (one of
\* them recursive), the SELF marker, None
ChildDomains ==
    <<RawValue(1, <<1>>), RawValue(1, <<NByte>>), EphLeaf(2, 1, 1),
      Agg(3, <<ConstLeaf(1, <<1>>)>>, FALSE),
      Agg(4, <<ConstLeaf(1, <<1>>), SELF>>, TRUE),
      SELF, NoDomain>>

\* most children given to one Agg
MaxChildren == 3

\* the lists of children, as lists of indices into ChildDomains
ChildChoices == UNION {[1..n -> 1..Len(ChildDomains)] : n \in 0..MaxChildren}
ChildList(f) == [i \in 1..Len(f) |-> ChildDomains[f[i]]]

\* Agg(children): the setter runs in the constructor; when it raises no
\* object is built and the existing node is left alone
DoNewAgg ==
    /\ op = "init"
    /\ \E f \in ChildChoices :
           \E s \in {setChildren(ChildList(f), 1, <<>>)} :
               /\ op' = "NewAgg"
               /\ arg' = [children |-> ChildList(f)]
               /\ res' = [exc |-> s.exc]
               /\ node' = IF s.exc = "none"
                          THEN [children |-> s.children, exc |-> "none"]
                          ELSE node
               /\ UNCHANGED <<fuzzMap, ty, mutator, stack, fuzzes, exec>>

\* node.children = children on the existing node
DoSetChildren ==
    /\ op \in {"init", "NewAgg"}
    /\ \E f \in ChildChoices :
           \E s \in {setChildren(ChildList(f), 1, <<>>)} :
               /\ op' = "SetChildren"
               /\ arg' = [children |-> ChildList(f)]
               /\ res' = [exc |-> s.exc]
               /\ node' = [children |-> s.children, exc |-> s.exc]
               /\ UNCHANGED <<fuzzMap, ty, mutator, stack, fuzzes, exec>>

NextNode == DoNewAgg \/ DoSetChildren

SpecNode == Init /\ [][NextNode]_vars

\* every child is a domain on its own: a value, a leaf, an Agg or SELF
ValidChildren(cs) == \A i \in 1..Len(cs) : cs[i].kind # "Invalid"

SelfBeforeLast(cs) == \E i \in 1..Len(cs) - 1 : IsSelf(cs[i])

\* C6: giving an Agg children with the SELF marker at a position other than
\* the last raises ValueError, at construction and at assignment; with SELF
\* in last position only, the children are accepted and the last one is kept
\* as the marker itself.
SelfOnlyLast ==
    (op \in {"NewAgg", "SetChildren"} /\ ValidChildren(arg.children)
        /\ \E i \in 1..Len(arg.children) : IsSelf(arg.children[i]))
        => IF SelfBeforeLast(arg.children)
           THEN res.exc = "ValueError"
           ELSE /\ res.exc = "none"
                /\ Len(node.children) = Len(arg.children)
                /\ node.children[Len(arg.children)] = SELF

\* the same, for children that are values and leaves
SelfOnlyLastAmongLeaves ==
    (op \in {"NewAgg", "SetChildren"}
        /\ \A i \in 1..Len(arg.children) : arg.children[i].kind \in {"Raw", "Data", "SELF"})
        => SelfOnlyLast

-----------------------------------------------------------------------------
(* AbstractType: the value and the size of a type descriptor.  A value is  *)
(* None or a bitarray, a size argument is None, an int or a tuple of two   *)
(* bounds that are None or an int; the size is kept as a tuple.            *)

Some(x) == [isNone |-> FALSE, val |-> x]

\* most bits of a size bound
MaxSize == 2

SizeInt(n) == [form |-> "int", min |-> Some(n), max |-> Some(n)]
SizeTuple(lo, hi) == [form |-> "tuple", min |-> lo, max |-> hi]
SizeNone == [form |-> "None", min |-> None, max |-> None]
Unbounded == SizeTuple(None, None)

Bounds == {None} \cup {Some(n) : n \in 0..MaxSize}
SizeArgs ==
    {SizeNone} \cup {SizeInt(n) : n \in 0..MaxSize}
        \cup {SizeTuple(lo, hi) : lo \in Bounds, hi \in Bounds}
ValueArgs == {None} \cup {Some(v) : v \in SeqsOf(1, 1)}

\* the size setter: None becomes (None, None) and an int n becomes (n, n)
SizeSetter(size) == SizeTuple(size.min, size.max)

\* the check of __init__: a value excludes any size but the tuple (None, None)
InitRejects(value, size) == ~value.isNone /\ size # Unbounded

\* AbstractType.__init__(typeName, value, size)
DoTypeInit ==
    /\ op \in {"init", "TypeInit"}
    /\ \E value \in ValueArgs, size \in SizeArgs :
           /\ op' = "TypeInit"
           /\ arg' = [value |-> value, size |-> size]
           /\ res' = [exc |-> IF InitRejects(value, size) THEN "Exception" ELSE "none"]
           /\ ty' = IF InitRejects(value, size) THEN ty
                    ELSE [built |-> TRUE, value |-> value, size |-> SizeSetter(size)]
           /\ UNCHANGED <<fuzzMap, node, mutator, stack, fuzzes, exec>>

\* t.value = value
DoSetValue ==
    /\ ty.built
    /\ op \in {"TypeInit", "SetValue", "SetSize"}
    /\ \E value \in ValueArgs :
           /\ op' = "SetValue"
           /\ arg' = [value |-> value]
           /\ res' = Idle
           /\ ty' = [ty EXCEPT !.value = value]
           /\ UNCHANGED <<fuzzMap, node, mutator, stack, fuzzes, exec>>

\* t.size = size
DoSetSize ==
    /\ ty.built
    /\ op \in {"TypeInit", "SetValue", "SetSize"}
    /\ \E size \in SizeArgs :
           /\ op' = "SetSize"
           /\ arg' = [size |-> size]
           /\ res' = Idle
           /\ ty' = [ty EXCEPT !.size = SizeSetter(size)]
           /\ UNCHANGED <<fuzzMap, node, mutator, stack, fuzzes, exec>>

NextType == DoTypeInit \/ DoSetValue \/ DoSetSize

SpecType == Init /\ [][NextType]_vars

\* C10: a type descriptor that has a value has the size (None, None), right
\* after construction and after any assignment to its value or its size; and
\* constructing a type with a value and a size other than (None, None)
\* raises an exception.
ValueExcludesSize ==
    /\ (ty.built /\ ~ty.value.isNone) => ty.size = Unbounded
    /\ (op = "TypeInit" /\ ~arg.value.isNone /\ arg.size # Unbounded)
          => res.exc = "Exception"

\* the part of it that construction alone is responsible for
ValueExcludesSizeAtInit ==
    /\ (op = "TypeInit" /\ res.exc = "none" /\ ~ty.value.isNone) => ty.size = Unbounded
    /\ (op = "TypeInit" /\ ~arg.value.isNone /\ arg.size # Unbounded)
          => res.exc = "Exception"

-----------------------------------------------------------------------------
(* Padding.computeExpectedValue.  Lengths are in bits.  A target is a Data *)
(* or another relation leaf with a dataType: fixed tells whether its       *)
(* declared size has min = max (= size), integer whether its dataType is   *)
(* an Integer (of unit bits), inPath whether the path holds data for it    *)
(* (of len bits).                                                          *)

\* most bits of the data of a Data target
MaxBits == 3
\* largest modulo
MaxModulo == 4
\* largest offset, in absolute value
MaxOffset == 1
\* most bits the padding dataType generates at once
MaxGen == 2
\* bits of the unit of an Integer dataType
UnitBits == 2

Target(kind, fixed, size, integer, inPath, len) ==
    [kind |-> kind, fixed |-> fixed, size |-> size, integer |-> integer,
     unit |-> UnitBits, inPath |-> inPath, len |-> len]

Targets ==
    {Target("Data", FALSE, 0, FALSE, TRUE, n) : n \in 0..MaxBits}
        \cup {Target("Data", FALSE, 0, FALSE, FALSE, 0)}
        \cup {Target("Data", TRUE, n, FALSE, b, IF b THEN n ELSE 0) :
                 n \in 1..2, b \in BOOLEAN}
        \cup {Target("Relation", TRUE, n, FALSE, b, IF b THEN n ELSE 0) :
                 n \in 1..2, b \in BOOLEAN}
        \cup {Target("Relation", FALSE, 0, TRUE, b, IF b THEN UnitBits ELSE 0) :
                 b \in BOOLEAN}
        \cup {Target("Relation", FALSE, 0, FALSE, TRUE, 1)}

TargetLists == UNION {[1..n -> Targets] : n \in 1..2}

\* the factor, a float in the code, as a fraction <<numerator, denominator>>
Factors == {<<1, 1>>, <<1, 2>>, <<2, 1>>}

\* int(): truncation toward zero of num / den, den > 0
Trunc(num, den) == IF num >= 0 THEN num \div den ELSE -((-num) \div den)

Computed(len) == [exc |-> "none", msg |-> "", len |-> len]
Failed(msg) == [exc |-> "Exception", msg |-> msg, len |-> 0]

\* a variant in which the declared size of a target counts only once the
\* path holds its data
RECURSIVE TargetsSizeNeedsData(_, _, _)
TargetsSizeNeedsData(ts, i, size) ==
    IF i > Len(ts) THEN [exc |-> "none", msg |-> "", size |-> size]
    ELSE LET t == ts[i]
         IN  IF ~t.inPath
             THEN [exc |-> "Exception", msg |-> "dependencies are missing", size |-> size]
             ELSE IF t.kind # "Data" /\ t.fixed
             THEN TargetsSizeNeedsData(ts, i + 1, size + t.size)
             ELSE IF t.kind # "Data" /\ t.integer
             THEN TargetsSizeNeedsData(ts, i + 1, size + t.unit)
             ELSE IF t.kind # "Data"
             THEN [exc |-> "Exception", msg |-> "must have a fixed size", size |-> size]
             ELSE TargetsSizeNeedsData(ts, i + 1, size + t.len)

\* lines 254-296: the loops over the targets, from target i on.  It yields
\* the size of the targets counted by their declared size and the bits of
\* the data of the others, or stops at the first target that has no fixed
\* size or no data
RECURSIVE TargetsSize(_, _, _)
TargetsSize(ts, i, size) ==
    IF i > Len(ts) THEN [exc |-> "none", msg |-> "", size |-> size]
    ELSE LET t == ts[i]
         IN  IF t.kind # "Data" /\ t.fixed
             THEN TargetsSize(ts, i + 1, size + t.size)
             ELSE IF t.kind # "Data" /\ t.integer
             THEN TargetsSize(ts, i + 1, size + t.unit)
             ELSE IF t.kind # "Data"
             THEN [exc |-> "Exception", msg |-> "must have a fixed size", size |-> size]
             ELSE IF t.inPath
             THEN TargetsSize(ts, i + 1, size + t.len)
             ELSE [exc |-> "Exception", msg |-> "dependencies are missing", size |-> size]

\* a length to pad that ignores that the structure is aligned already
LengthToPadFullBlock(size, modulo) == modulo - (size % modulo)

\* lines 310-311
LengthToPad(size, modulo) ==
    LET mod == size % modulo
    IN  IF mod > 0 THEN modulo - mod ELSE 0

\* lines 312-313: whole generated values are appended until the length to
\* pad is reached; gens are the lengths the dataType can generate
RECURSIVE PaddingLengths(_, _, _)
PaddingLengths(cur, lengthToPad, gens) ==
    IF cur >= lengthToPad THEN {cur}
    ELSE UNION {PaddingLengths(cur + g, lengthToPad, gens) : g \in gens}

\* the outcomes of computeExpectedValue without callback
computeExpectedValue(ts, modulo, factor, offset, gens) ==
    LET t == TargetsSize(ts, 1, 0)
        size == Trunc(t.size * factor[1] + offset * factor[2], factor[2])
    IN  IF t.exc # "none" THEN {Failed(t.msg)}
        ELSE {Computed(p) : p \in PaddingLengths(0, LengthToPad(size, modulo), gens)}

GenSets == (SUBSET (1..MaxGen)) \ {{}}

DoComputeExpectedValue ==
    /\ op = "init"
    /\ \E ts \in TargetLists, modulo \in 1..MaxModulo, factor \in Factors,
          offset \in (-MaxOffset)..MaxOffset, gens \in GenSets :
           \E r \in computeExpectedValue(ts, modulo, factor, offset, gens) :
               /\ op' = "computeExpectedValue"
               /\ arg' = [targets |-> ts, modulo |-> modulo, factor |-> factor,
                          offset |-> offset, gens |-> gens]
               /\ res' = r
               /\ UNCHANGED <<fuzzMap, node, ty, mutator, stack, fuzzes, exec>>

NextPadding == DoComputeExpectedValue

SpecPadding == Init /\ [][NextPadding]_vars

-----------------------------------------------------------------------------
(* Properties of Padding, checked under SpecPadding *)

\* the path holds data for every target
AllInPath(ts) == \A i \in 1..Len(ts) : ts[i].inPath

\* the bit length of the targets' data in the path
RECURSIVE TargetsBits(_, _)
TargetsBits(ts, i) ==
    IF i > Len(ts) THEN 0
    ELSE (IF ts[i].inPath THEN ts[i].len ELSE 0) + TargetsBits(ts, i + 1)

\* s = int(T * factor + offset)
ScaledSize(T, factor, offset) == Trunc(T * factor[1] + offset * factor[2], factor[2])

\* the least L >= 0 with (s + L) % m = 0
Gap(s, m) == CHOOSE l \in 0..(m - 1) : (s + l) % m = 0

LongestGen(gens) == CHOOSE g \in gens : \A h \in gens : h <= g

PaddingComputed ==
    op = "computeExpectedValue" /\ res.exc = "none" /\ AllInPath(arg.targets)

-----------------------------------------------------------------------------
(* IPv4.__init__(value, network).  An address is a dotted quad; a value is *)
(* given as a string or as a bitarray of 32 bits.  The conversion of a    *)
(* string by TypeConverter gives the four octets, most significant bit     *)
(* first.                                                                  *)

Octets == {0, 10, 192}
Addresses == [1..4 -> Octets]

RECURSIVE Pow2(_)
Pow2(n) == IF n = 0 THEN 1 ELSE 2 * Pow2(n - 1)

\* the 8 bits of an octet, most significant first
OctetBits(n) == [i \in 1..8 |-> (n \div Pow2(8 - i)) % 2]

\* TypeConverter.convert(value, IPv4, BitArray): the 32 bits of the address
IPv4Bits(a) == OctetBits(a[1]) \o OctetBits(a[2]) \o OctetBits(a[3]) \o OctetBits(a[4])

IPv4Str(a) == [isNone |-> FALSE, form |-> "str", addr |-> a]
IPv4BitArray(a) == [isNone |-> FALSE, form |-> "bitarray", bits |-> IPv4Bits(a)]
IPv4Values == {None} \cup {IPv4Str(a) : a \in Addresses}
                  \cup {IPv4BitArray(a) : a \in Addresses}

\* networks: a prefix of one or two octets (a /8 or a /16)
Networks == {None} \cup {[isNone |-> FALSE, prefix |-> <<o>>] : o \in Octets}
                \cup {[isNone |-> FALSE, prefix |-> <<o1, o2>>] : o1 \in Octets, o2 \in Octets}

\* lines 130-142: a value that is not a bitarray is converted to one
IPv4Converted(value) ==
    IF value.isNone THEN None
    ELSE IF value.form = "bitarray" THEN Some(value.bits)
    ELSE Some(IPv4Bits(value.addr))

\* line 146: size = (0, 1 << unitSize.value), the upper bound kept as its shift
IPv4Size == SizeTuple(Some(0), [isNone |-> FALSE, shift |-> 32])

\* the exception IPv4.__init__ ends with ("none" when the type is built)
IPv4InitExc(value, network) ==
    IF ~value.isNone /\ ~network.isNone THEN "ValueError"
    ELSE IF InitRejects(IPv4Converted(value), IPv4Size) THEN "Exception"
    ELSE "none"

DoIPv4Init ==
    /\ op = "init"
    /\ \E value \in IPv4Values, network \in Networks :
           /\ op' = "IPv4Init"
           /\ arg' = [value |-> value, network |-> network]
           /\ res' = [exc |-> IPv4InitExc(value, network)]
           /\ ty' = IF IPv4InitExc(value, network) # "none" THEN ty
                    ELSE [built |-> TRUE, value |-> IPv4Converted(value),
                          size |-> SizeSetter(IPv4Size), network |-> network]
           /\ UNCHANGED <<fuzzMap, node, mutator, stack, fuzzes, exec>>

NextIPv4 == DoIPv4Init

SpecIPv4 == Init /\ [][NextIPv4]_vars

\* C11: constructing an IPv4 with a concrete address succeeds and yields a
\* type whose value is the 32-bit encoding of that address; the only
\* rejected combination is a value together with a network, which raises
\* ValueError.
IPv4ValueAccepted ==
    op = "IPv4Init"
        => /\ (~arg.value.isNone /\ ~arg.network.isNone) => res.exc = "ValueError"
           /\ (arg.value.isNone \/ arg.network.isNone) => res.exc = "none"
           /\ (arg.network.isNone /\ ~arg.value.isNone /\ arg.value.form = "str")
                 => /\ ty.built
                    /\ ty.value = Some(IPv4Bits(arg.value.addr))

\* the part of it about the rejected combination and the types without value
IPv4WithoutValue ==
    op = "IPv4Init"
        => /\ (~arg.value.isNone /\ ~arg.network.isNone) => res.exc = "ValueError"
           /\ arg.value.isNone => (res.exc = "none" /\ ty.built /\ ty.value = None
                                      /\ ty.network = arg.network)

-----------------------------------------------------------------------------
(* DomainFactory.normalizeDomain on an alternative: a list, or an Alt      *)
(* built from a list (its constructor assigns the children through the     *)
(* children setter).                                                       *)

\* the id of the list or Alt given
TopId == 6

\* the alternatives given: values (two of them equal), a leaf, Aggs built
\* before (one of them recursive), lists of two values (different, equal)
AltDomains ==
    <<RawValue(1, <<1>>), RawValue(2, <<1>>), RawValue(3, <<NByte>>),
      EphLeaf(4, 1, 1),
      Agg(3, <<ConstLeaf(1, <<1>>)>>, FALSE),
      Agg(4, <<ConstLeaf(1, <<1>>), SELF>>, TRUE),
      List(5, <<RawValue(1, <<1>>), RawValue(3, <<NByte>>)>>),
      List(5, <<RawValue(1, <<1>>), RawValue(2, <<1>>)>>)>>

AltChoices == UNION {[1..n -> 1..Len(AltDomains)] : n \in 0..MaxChildren}
AltList(f) == [i \in 1..Len(f) |-> AltDomains[f[i]]]

\* DomainFactory.normalizeDomain([c1, ..., cn])
DoNormalizeList ==
    /\ op = "init"
    /\ \E f \in AltChoices :
           \E r \in {normalizeDomain(List(TopId, AltList(f)))} :
               /\ op' = "NormalizeList"
               /\ arg' = [children |-> AltList(f)]
               /\ res' = r
               /\ UNCHANGED <<fuzzMap, node, ty, mutator, stack, fuzzes, exec>>

\* DomainFactory.normalizeDomain(Alt([c1, ..., cn]))
DoNormalizeAlt ==
    /\ op = "init"
    /\ \E f \in AltChoices :
           \E s \in {setChildren(AltList(f), 1, <<>>)} :
               /\ op' = "NormalizeAlt"
               /\ arg' = [children |-> AltList(f)]
               /\ res' = IF s.exc # "none" THEN NotNormalized(s.exc)
                         ELSE normalizeDomain(Alt(TopId, s.children))
               /\ UNCHANGED <<fuzzMap, node, ty, mutator, stack, fuzzes, exec>>

NextDomain == DoNormalizeList \/ DoNormalizeAlt

SpecDomain == Init /\ [][NextDomain]_vars

\* the alternative a child stands for: the leaf of a value, the leaf or the
\* node itself, the normal form of a list
Alternative(c) ==
    CASE c.kind = "Raw" -> ConstLeaf(c.id, c.value)
      [] c.kind = "List" -> normalizeDomain(c).value
      [] OTHER -> c

\* the alternatives to keep: every node, and the first of equal leaves
Kept(alts) ==
    {i \in 1..Len(alts) :
        IsNode(alts[i]) \/ \A j \in 1..(i - 1) : ~LeafEq(alts[j], alts[i])}

\* out is made of the alternatives to keep, in the order of alts
KeepsInOrder(alts, out) ==
    /\ Len(out) = Cardinality(Kept(alts))
    /\ \A i \in Kept(alts) :
          out[Cardinality({j \in Kept(alts) : j <= i})] = alts[i]

AltNormalized(cs) ==
    LET alts == [i \in 1..Len(cs) |-> Alternative(cs[i])]
    IN  /\ res.exc = "none"
        /\ IF Cardinality(Kept(alts)) = 1
           THEN \E i \in Kept(alts) : res.value = alts[i]
           ELSE /\ res.value.kind = "Alt"
                /\ res.value.id = TopId
                /\ KeepsInOrder(alts, res.value.children)
                /\ \A i, j \in 1..Len(res.value.children) :
                      i # j => ~LeafEq(res.value.children[i], res.value.children[j])

\* C12: after normalizeDomain on a list or an Alt, no two leaf children of
\* the resulting Alt are equal, every distinct leaf alternative of the input
\* is still there in first-occurrence order, the node children are all
\* kept, and a single alternative left is returned itself, not an Alt.
AltDeduplicated ==
    op \in {"NormalizeList", "NormalizeAlt"} => AltNormalized(arg.children)

\* a recursive Agg is among the children
HasRecursiveAgg(cs) == \E i \in 1..Len(cs) : cs[i].kind = "Agg" /\ HasSelf(cs[i])

\* the same, but for a list of one element that is not a value or a leaf,
\* and for children among which there is a recursive Agg
AltDeduplicatedElsewhere ==
    (/\ op \in {"NormalizeList", "NormalizeAlt"}
     /\ ~HasRecursiveAgg(arg.children)
     /\ ~(op = "NormalizeList" /\ Len(arg.children) = 1
              /\ arg.children[1].kind \in {"Agg", "List"}))
        => AltNormalized(arg.children)

-----------------------------------------------------------------------------
(* Mutators and their mutation counter.  Every mutator class inherits      *)
(* generate() of Mutator, which counts the call, and calls it first;       *)
(* IPv4Mutator has a generate() of its own.                                *)

\* largest counterMax given to a mutator
MaxCounter == 4
\* most calls of generate() on one mutator
MaxCalls == 6

MutatorClasses ==
    {"IntegerMutator", "StringMutator", "HexaStringMutator", "AggMutator", "IPv4Mutator"}

\* Mutator.generate: refuses the call when the counter has reached
\* counterMax, counts it otherwise
MutatorGenerate(m) ==
    IF m.currentCounter >= m.counterMax
    THEN [exc |-> "Exception", counter |-> m.currentCounter]
    ELSE [exc |-> "none", counter |-> m.currentCounter + 1]

\* IPv4Mutator.generate, lines 109-114
IPv4MutatorGenerate(m) ==
    IF m.currentCounter >= m.counterMax
    THEN [exc |-> "Exception", counter |-> m.currentCounter]
    ELSE [exc |-> "none", counter |-> (m.currentCounter + 1) + 1]

\* generate() of a mutator of class m.class
generate(m) ==
    IF m.class = "IPv4Mutator" THEN IPv4MutatorGenerate(m) ELSE MutatorGenerate(m)

\* a fresh mutator
DoNewMutator ==
    /\ op = "init"
    /\ \E c \in MutatorClasses, cmax \in 0..MaxCounter :
           /\ op' = "NewMutator"
           /\ arg' = [class |-> c, counterMax |-> cmax]
           /\ res' = Idle
           /\ mutator' = [built |-> TRUE, class |-> c, currentCounter |-> 0,
                          counterMax |-> cmax, calls |-> 0]
           /\ UNCHANGED <<fuzzMap, node, ty, stack, fuzzes, exec>>

\* mutator.generate(); calls counts the calls made
DoGenerate ==
    /\ op \in {"NewMutator", "generate"}
    /\ mutator.calls < MaxCalls
    /\ \E g \in {generate(mutator)} :
           /\ op' = "generate"
           /\ arg' = [call |-> mutator.calls + 1]
           /\ res' = [exc |-> g.exc]
           /\ mutator' = [mutator EXCEPT !.currentCounter = g.counter,
                                         !.calls = mutator.calls + 1]
           /\ UNCHANGED <<fuzzMap, node, ty, stack, fuzzes, exec>>

NextMutator == DoNewMutator \/ DoGenerate

SpecMutator == Init /\ [][NextMutator]_vars

\* C13: starting from a fresh mutator, the first counterMax calls of
\* generate() succeed and every later call raises 'Max mutation counter
\* reached', for every mutator class, IPv4Mutator included.
CounterMaxValues ==
    op = "generate"
        => IF arg.call <= mutator.counterMax
           THEN res.exc = "none"
           ELSE res.exc = "Exception"

\* the same for the classes that count with Mutator.generate
CounterMaxValuesInherited ==
    (op = "generate" /\ mutator.class # "IPv4Mutator")
        => IF arg.call <= mutator.counterMax
           THEN res.exc = "none"
           ELSE res.exc = "Exception"

-----------------------------------------------------------------------------
(* Fuzz.set and Fuzz.unset on fields whose domains are leaves and nodes.   *)

\* most calls of set and unset on one Fuzz object
MaxFuzzCalls == 3

AllFuzzKeys == {FieldKey(1), FieldKey(2), TypeKey} \cup {VarKey(i) : i \in 1..5}

\* the variables of a key: the variable (of the field) and the variables below
RECURSIVE VarsBelow(_, _)
VarsBelow(cs, i) ==
    IF i > Len(cs) THEN {}
    ELSE {cs[i]} \cup VarsBelow(VarChildren(cs[i]), 1) \cup VarsBelow(cs, i + 1)
KeyVar(k) == IF IsFieldKey(k) THEN DomainKey(k) ELSE k
KeyVars(k) == {KeyVar(k)} \cup VarsBelow(VarChildren(KeyVar(k)), 1)

\* the calls made on the Fuzz object so far
Calls == IF op \in {"set", "unset"} THEN arg.n ELSE 0

\* fuzz = Fuzz()
DoFuzz ==
    /\ op = "init"
    /\ op' = "Fuzz"
    /\ arg' = Idle
    /\ res' = Idle
    /\ fuzzMap' = FuzzInitial
    /\ UNCHANGED <<node, ty, mutator, stack, fuzzes, exec>>

\* fuzz.set(key, **kwargs)
DoSet ==
    /\ op \in {"Fuzz", "set", "unset"}
    /\ Calls < MaxFuzzCalls
    /\ \E k \in AllFuzzKeys, kw \in Kwargs :
           /\ op' = "set"
           /\ arg' = [key |-> k, kwargs |-> kw, n |-> Calls + 1]
           /\ res' = Idle
           /\ fuzzMap' = FuzzSet(fuzzMap, k, kw)
           /\ UNCHANGED <<node, ty, mutator, stack, fuzzes, exec>>

\* fuzz.unset(key); before is the mapping at the call, afterSet tells that
\* the call before was set(key)
DoUnset ==
    /\ op \in {"Fuzz", "set", "unset"}
    /\ Calls < MaxFuzzCalls
    /\ \E k \in AllFuzzKeys \ {TypeKey} :
           /\ op' = "unset"
           /\ arg' = [key |-> k, n |-> Calls + 1, before |-> fuzzMap.fields,
                      afterSet |-> (op = "set" /\ arg.key = k)]
           /\ res' = Idle
           /\ fuzzMap' = FuzzUnset(fuzzMap, k)
           /\ UNCHANGED <<node, ty, mutator, stack, fuzzes, exec>>

NextFuzz == DoFuzz \/ DoSet \/ DoUnset

SpecFuzz == Init /\ [][NextFuzz]_vars

\* the entries of the keys in ks are what they were before the call
SameMutators(ks) ==
    \A k \in ks : k \in DOMAIN fuzzMap.fields /\ fuzzMap.fields[k] = arg.before[k]

\* C14: after set(key) followed by unset(key), no mutator remains registered
\* for any variable of key, the children of a node domain for which set(key)
\* registered mutators by propagation included, and the mutators of the
\* other keys are unchanged.
UnsetDeactivates ==
    (op = "unset" /\ arg.afterSet)
        => /\ \A v \in KeyVars(arg.key) : v \notin DOMAIN fuzzMap.fields
           /\ SameMutators(DOMAIN arg.before \ KeyVars(arg.key))

\* the same for the variable of the key alone
UnsetDeactivatesKey ==
    (op = "unset" /\ arg.afterSet)
        => /\ KeyVar(arg.key) \notin DOMAIN fuzzMap.fields
           /\ DOMAIN fuzzMap.fields = DOMAIN arg.before \ {KeyVar(arg.key)}
           /\ SameMutators(DOMAIN arg.before \ {KeyVar(arg.key)})

-----------------------------------------------------------------------------
(* Transition.executeAsInitiator and executeAsNotInitiator.  Symbols are   *)
(* numbers, EmptySymbol among them.  The abstraction layer is given by the *)
(* outcome of its writeSymbol and readSymbol: "ok", "timeout" (it raises   *)
(* socket.timeout) or "error" (it raises another exception), and by the    *)
(* symbol readSymbol returns.  A result is [exc, ret, sent, reads]: the    *)
(* exception raised, what is returned ("-" when it raised), the symbols    *)
(* written and the number of calls of readSymbol.                          *)

EmptySymbol == 0
\* the symbols of the vocabulary are 1..NSym; NSym + 1 is a symbol that is
\* not of the vocabulary
NSym == 2
Symbols == 0..(NSym + 1)

Outcomes == {"ok", "timeout", "error"}

\* cbk_modify_symbol: no callback, or one that selects the symbol cbk.sym
NoCallback == [defined |-> FALSE, sym |-> EmptySymbol]
Callbacks == {NoCallback} \cup {[defined |-> TRUE, sym |-> s] : s \in Symbols}

Transition(inputSymbol, outputSymbols, cbk) ==
    [inputSymbol |-> inputSymbol, outputSymbols |-> outputSymbols, cbk |-> cbk]
Transitions ==
    {Transition(i, o, c) : i \in 0..NSym, o \in SUBSET (0..NSym), c \in Callbacks}

AbstractionLayer(write, read, received) ==
    [write |-> write, read |-> read, received |-> received]
AbstractionLayers ==
    {AbstractionLayer(w, r, s) : w \in Outcomes, r \in Outcomes, s \in Symbols}

Returned(state, sent, reads) == [exc |-> "none", ret |-> state, sent |-> sent, reads |-> reads]
Raised(e, sent, reads) == [exc |-> e, ret |-> "-", sent |-> sent, reads |-> reads]

\* lines 214-222 and 368-376: the callbacks may replace the symbol to send
SymbolToSend(t, s) == IF t.cbk.defined THEN t.cbk.sym ELSE s

\* a variant that gives up with None when the read times out
executeAsInitiatorNoneOnTimeout(t, al) ==
    LET sent == <<SymbolToSend(t, t.inputSymbol)>>
    IN  IF al.write = "timeout" THEN Raised("socket.timeout", sent, 0)
        ELSE IF al.write = "error" THEN Raised("Exception", sent, 0)
        ELSE IF al.read = "timeout" THEN Returned("None", sent, 1)
        ELSE IF al.read = "error" THEN Raised("Exception", sent, 1)
        ELSE IF al.received \in t.outputSymbols THEN Returned("endState", sent, 1)
        ELSE Raised("NameError", sent, 1)

\* Transition.executeAsInitiator: the symbol is written, one symbol is
\* read, and the end state is returned when it is an output symbol.  The
\* message of the exception for an unexpected symbol names receivedSymbol,
\* which is not defined: NameError is raised in its place.
executeAsInitiator(t, al) ==
    LET sent == <<SymbolToSend(t, t.inputSymbol)>>
    IN  IF al.write = "timeout" THEN Raised("socket.timeout", sent, 0)
        ELSE IF al.write = "error" THEN Raised("Exception", sent, 0)
        ELSE IF al.read = "timeout" THEN Raised("socket.timeout", sent, 1)
        ELSE IF al.read = "error" THEN Raised("Exception", sent, 1)
        ELSE IF al.received \in t.outputSymbols THEN Returned("endState", sent, 1)
        ELSE Raised("NameError", sent, 1)

\* Transition.__pickOutputSymbol: no symbol has an explicit probability, so
\* the 100% are shared among the output symbols (a division by their
\* number) and random.choice picks any of them; then the callbacks
pickOutputSymbol(t, choice) ==
    IF Cardinality(t.outputSymbols) = 0
    THEN [exc |-> "ZeroDivisionError", sym |-> EmptySymbol]
    ELSE [exc |-> "none", sym |-> SymbolToSend(t, choice)]

\* Transition.executeAsNotInitiator, with the symbol random.choice picks
executeAsNotInitiator(t, al, choice) ==
    LET picked == pickOutputSymbol(t, choice)
    IN  IF picked.exc # "none" THEN Raised(picked.exc, <<>>, 0)
        ELSE IF al.write = "timeout" THEN Returned("None", <<picked.sym>>, 0)
        ELSE IF al.write = "error" THEN Raised("Exception", <<picked.sym>>, 0)
        ELSE Returned("endState", <<picked.sym>>, 0)

DoExecuteAsInitiator ==
    /\ op = "init"
    /\ \E t \in Transitions, al \in AbstractionLayers :
           /\ op' = "executeAsInitiator"
           /\ arg' = [transition |-> t, layer |-> al]
           /\ res' = executeAsInitiator(t, al)
           /\ UNCHANGED <<fuzzMap, node, ty, mutator, stack, fuzzes, exec>>

DoExecuteAsNotInitiator ==
    /\ op = "init"
    /\ \E t \in Transitions, al \in AbstractionLayers :
           \E choice \in IF t.outputSymbols = {} THEN {EmptySymbol} ELSE t.outputSymbols :
               /\ op' = "executeAsNotInitiator"
               /\ arg' = [transition |-> t, layer |-> al, choice |-> choice]
               /\ res' = executeAsNotInitiator(t, al, choice)
               /\ UNCHANGED <<fuzzMap, node, ty, mutator, stack, fuzzes, exec>>

NextTransition == DoExecuteAsInitiator \/ DoExecuteAsNotInitiator

SpecTransition == Init /\ [][NextTransition]_vars

\* the symbol was written, read back, and it is an output symbol
ExpectedReceived ==
    /\ arg.layer.write = "ok"
    /\ arg.layer.read = "ok"
    /\ arg.layer.received \in arg.transition.outputSymbols

\* C15: executeAsInitiator writes the input symbol and then reads one
\* symbol; it returns the end state if and only if the symbol received is
\* one of the output symbols, and raises an exception in every other case
\* (unexpected symbol, write or read error, timeout): it never returns None
\* or another state.
InitiatorOutcome ==
    op = "executeAsInitiator"
        => /\ (res.exc = "none" /\ res.ret = "endState") <=> ExpectedReceived
           /\ ~ExpectedReceived => (res.exc # "none" /\ res.ret = "-")
           /\ ~arg.transition.cbk.defined => res.sent = <<arg.transition.inputSymbol>>
           /\ res.reads = (IF arg.layer.write = "ok" THEN 1 ELSE 0)

\* a symbol that is not an output symbol was received, and an exception raised
InitiatorOutcomeWitness ==
    /\ op = "executeAsInitiator"
    /\ arg.layer.write = "ok"
    /\ arg.layer.read = "ok"
    /\ arg.layer.received \notin arg.transition.outputSymbols
    /\ res.exc # "none"
    /\ res.reads = 1

\* C16: executeAsNotInitiator on a transition without output symbol sends an
\* EmptySymbol on the abstraction layer and returns the end state, without
\* raising.
NoOutputSendsEmpty ==
    (/\ op = "executeAsNotInitiator"
     /\ arg.transition.outputSymbols = {}
     /\ ~arg.transition.cbk.defined
     /\ arg.layer.write = "ok")
        => /\ res.exc = "none"
           /\ res.ret = "endState"
           /\ res.sent = <<EmptySymbol>>

\* with output symbols, one of them is sent and the end state returned
OutputSent ==
    (/\ op = "executeAsNotInitiator"
     /\ arg.transition.outputSymbols # {}
     /\ ~arg.transition.cbk.defined
     /\ arg.layer.write = "ok")
        => /\ res.exc = "none"
           /\ res.ret = "endState"
           /\ Len(res.sent) = 1
           /\ res.sent[1] \in arg.transition.outputSymbols

-----------------------------------------------------------------------------
(* Agg.parse: the optional last child, the result and the abort on a      *)
(* failing child, checked under SpecAgg                                    *)

\* the Agg made of the first i children of a, none of them optional
HeadAgg(a, i) == Agg(a.id, Prefix(a.children, i), FALSE)

\* what the first i children of a make of the data
HeadParse(a, data, i) == AggParse(HeadAgg(a, i), ParsingPathFor(a, data))

\* ghost: an operation of the child c was performed on the path p
Parsed(p, c) == \E e \in 1..Len(p.trace) : p.trace[e][2] = c.id

LastChild(a) == a.children[Len(a.children)]

\* the paths of the children before the last that consumed all the data
ConsumedAll(a, data) ==
    LET hr == HeadParse(a, data, Len(a.children) - 1)
    IN  {k \in 1..Len(hr.paths) : getData(hr.paths[k], a) = data}

\* C17: when last_optional is set and a path has consumed all the data once
\* the second-to-last child has parsed, the last child is not parsed on that
\* path and the path is returned as a success: it is the path of the
\* children before the last, its result their concatenated data.
OptionalTailElided ==
    (op = "AggParse" /\ arg.tree.last_optional /\ Len(arg.tree.children) >= 2) =>
        LET a == arg.tree
            hr == HeadParse(a, arg.data, Len(a.children) - 1)
        IN  \A k \in ConsumedAll(a, arg.data) :
                /\ res.exc = "none"
                /\ \E j \in 1..Len(res.paths) :
                       /\ res.paths[j] = hr.paths[k]
                       /\ ~Parsed(res.paths[j], LastChild(a))
                       /\ ~hasData(res.paths[j], LastChild(a))
                       /\ getData(res.paths[j], a) = arg.data

\* C17 witness: an optional last child left out of a returned path that
\* consumed data
OptionalTailElidedWitness ==
    /\ op = "AggParse"
    /\ arg.tree.last_optional
    /\ Len(arg.tree.children) >= 2
    /\ Len(arg.data) >= 1
    /\ ConsumedAll(arg.tree, arg.data) # {}
    /\ \E j \in 1..Len(res.paths) :
           /\ ~Parsed(res.paths[j], LastChild(arg.tree))
           /\ getData(res.paths[j], arg.tree) = arg.data

\* C18: every path returned by Agg.parse with last_optional set either
\* attributes no data to the last child or attributes to it data that the
\* last child's own parse accepted; data left over after the second-to-last
\* child never reaches the result unparsed, even when another path of the
\* same call consumed all of its data.
NoUnparsedTail ==
    (op = "AggParse" /\ arg.tree.last_optional /\ Len(arg.tree.children) >= 2
        /\ res.exc = "none") =>
        \A j \in 1..Len(res.paths) :
            hasData(res.paths[j], LastChild(arg.tree))
                => Parsed(res.paths[j], LastChild(arg.tree))

\* a returned path carries data of the last child that no parse has seen
UnparsedTail(p, a) ==
    /\ a.last_optional
    /\ Len(a.children) >= 2
    /\ hasData(p, LastChild(a))
    /\ ~Parsed(p, LastChild(a))

\* no path of the children before the last consumed all the data: the last
\* child is then parsed on every path that is returned
NoUnparsedTailAlone ==
    (op = "AggParse" /\ arg.tree.last_optional /\ Len(arg.tree.children) >= 2
        /\ res.exc = "none" /\ ConsumedAll(arg.tree, arg.data) = {}) =>
        \A j \in 1..Len(res.paths) : ~UnparsedTail(res.paths[j], arg.tree)

\* the data the child i of a consumed on the path p: what its parse left as
\* its data, nothing when it was not parsed
Consumed(p, a, i) ==
    IF Parsed(p, a.children[i]) THEN getData(p, a.children[i]) ELSE <<>>

ConsumedUpTo(p, a, i) == Flatten([m \in 1..i |-> Consumed(p, a, m)])

\* lines 268-281 and 296-307 on one returned path: each child consumed the
\* head of what the children before it left, and the result is the
\* concatenation of the consumed data
ConcatOfConsumed(p, a, data) ==
    /\ \A i \in 1..Len(a.children) :
           StartsWith(Drop(data, Len(ConsumedUpTo(p, a, i - 1))), Consumed(p, a, i))
    /\ getData(p, a) = ConsumedUpTo(p, a, Len(a.children))
    /\ StartsWith(data, getData(p, a))

\* C19: for every path returned by Agg.parse, the data handed to child i+1
\* is exactly the part of child i's input that child i did not consume, and
\* the result of the Agg is the concatenation, in child order, of the data
\* the children consumed, hence a prefix of the data the Agg was given.
ResultIsConsumed ==
    (op = "AggParse" /\ res.exc = "none") =>
        \A j \in 1..Len(res.paths) :
            ConcatOfConsumed(res.paths[j], arg.tree, arg.data)

\* the same on the returned paths that carry no unparsed data for an
\* optional last child
ResultIsConsumedParsed ==
    (op = "AggParse" /\ res.exc = "none") =>
        \A j \in 1..Len(res.paths) :
            ~UnparsedTail(res.paths[j], arg.tree)
                => ConcatOfConsumed(res.paths[j], arg.tree, arg.data)

\* the leaves of the children of a after the child i
LaterLeafIds(a, i) ==
    UNION {{l.id : l \in LeavesOf(a.children[m])} : m \in (i + 1)..Len(a.children)}

\* lines 241-242 and 280-281: the paths the child i of a is tried on, each
\* with what the children before it left assigned to the child
PathsBefore(a, data, i) ==
    IF i = 1 THEN <<assignData(ParsingPathFor(a, data), data, a.children[1])>>
    ELSE LET hp == HeadParse(a, data, i - 1).paths
         IN  [k \in 1..Len(hp) |->
                 assignData(hp[k], Drop(data, Len(getData(hp[k], a))), a.children[i])]

\* Agg.parse reaches the child i of a with some path and the child yields
\* no path on any of them: the children before it left a path, none of
\* which ended the loop by eliding an optional last child
ChildFails(a, data, i) ==
    /\ i > 1 => HeadParse(a, data, i - 1).exc = "none"
    /\ PathsBefore(a, data, i) # <<>>
    /\ \A k \in 1..Len(PathsBefore(a, data, i)) :
           /\ ParseVar(a.children[i], PathsBefore(a, data, i)[k]).exc = "none"
           /\ ParseVar(a.children[i], PathsBefore(a, data, i)[k]).paths = <<>>
    /\ (i = Len(a.children) /\ i > 1 /\ a.last_optional)
           => ConsumedAll(a, data) = {}

\* C20: Agg.parse returns the empty list as soon as some child, tried on
\* every path that survived the previous children, yields no path: no later
\* child is parsed and no result is recorded for the Agg.
ChildFailureAborts ==
    op = "AggParse" =>
        \A i \in 1..Len(arg.tree.children) :
            ChildFails(arg.tree, arg.data, i) =>
                /\ res.exc = "none"
                /\ res.paths = <<>>
                /\ \A e \in 1..Len(res.called) :
                       res.called[e][2] \notin LaterLeafIds(arg.tree, i)

\* C20 witness: a child that is not the last one fails after an earlier
\* child succeeded, and the parse returns no path
ChildFailureAbortsWitness ==
    /\ op = "AggParse"
    /\ \E i \in 2..(Len(arg.tree.children) - 1) :
           /\ ChildFails(arg.tree, arg.data, i)
           /\ LaterLeafIds(arg.tree, i) # {}
    /\ res.exc = "none"
    /\ res.paths = <<>>
    /\ Len(res.called) >= 2

-----------------------------------------------------------------------------
(* Agg.specialize on an Agg whose last child is SELF, one step at a time.  *)
(* The Agg has arg.before leaf children before SELF, each of which         *)
(* specializes to one path with one unit of data.  A frame of the stack is *)
(* one running call of Agg.specialize on the Agg: idx is the child the     *)
(* loop is at, taken is specialize_last_child, sub the length of the value *)
(* the recursive call returned and pc the position in the method.          *)

\* leaf children before SELF: at most
MaxBefore == 2
\* frames the recursion through SELF is followed to
MaxDepth == 5

Frame(idx, taken, sub, pc) == [idx |-> idx, taken |-> taken, sub |-> sub, pc |-> pc]

\* lines 315-316: a call starts at the first child with specialize_last_child True
NewFrame == Frame(1, TRUE, 0, "loop")

Top == stack[Len(stack)]
SetTop(f) == [stack EXCEPT ![Len(stack)] = f]
NbChildren == arg.before + 1

\* Agg([x1, .., SELF], last_optional).specialize(path)
DoSpecializeCall ==
    /\ op = "init"
    /\ \E nb \in 0..MaxBefore, lo \in BOOLEAN :
           /\ op' = "specialize"
           /\ arg' = [before |-> nb, last_optional |-> lo]
           /\ res' = Idle
           /\ stack' = <<NewFrame>>
           /\ UNCHANGED <<fuzzMap, node, ty, mutator, fuzzes, exec>>

\* lines 335-349: the child idx specializes the path (SELF hands it back as
\* it is); the optional last child is left to the random choice
DoChild ==
    /\ op = "specialize"
    /\ Top.pc = "loop"
    /\ ~(Top.idx = NbChildren /\ arg.last_optional)
    /\ stack' = SetTop([Top EXCEPT !.idx = @ + 1,
                                   !.pc = IF Top.idx = NbChildren
                                          THEN "results" ELSE "loop"])
    /\ UNCHANGED <<op, arg, res, fuzzMap, node, ty, mutator, fuzzes, exec>>

\* lines 324-330: random.choice returns True, the loop goes on with SELF.
\* The choice is not followed beyond MaxDepth frames.
DoTakeOption ==
    /\ op = "specialize"
    /\ Top.pc = "loop"
    /\ Top.idx = NbChildren /\ arg.last_optional
    /\ Len(stack) < MaxDepth
    /\ stack' = SetTop([Top EXCEPT !.idx = @ + 1, !.pc = "results"])
    /\ UNCHANGED <<op, arg, res, fuzzMap, node, ty, mutator, fuzzes, exec>>

\* lines 324-333: random.choice returns False, the loop is left
DoSkipOption ==
    /\ op = "specialize"
    /\ Top.pc = "loop"
    /\ Top.idx = NbChildren /\ arg.last_optional
    /\ stack' = SetTop([Top EXCEPT !.taken = FALSE, !.pc = "results"])
    /\ UNCHANGED <<op, arg, res, fuzzMap, node, ty, mutator, fuzzes, exec>>

\* lines 359-373: no child but SELF, value is None and value.tobytes() raises;
\* no frame catches the exception
DoNoData ==
    /\ op = "specialize"
    /\ Top.pc = "results"
    /\ arg.before = 0
    /\ op' = "raised"
    /\ res' = [exc |-> "AttributeError"]
    /\ stack' = <<>>
    /\ UNCHANGED <<arg, fuzzMap, node, ty, mutator, fuzzes, exec>>

\* the recursive call of line 378 is made
RecursiveMode(f) == f.taken

\* lines 376-378: the last child is SELF and specialize_last_child holds:
\* self.specialize is called on the path
DoRecurse ==
    /\ op = "specialize"
    /\ Top.pc = "results"
    /\ arg.before > 0
    /\ RecursiveMode(Top)
    /\ Len(stack) < MaxDepth
    /\ stack' = Append(SetTop([Top EXCEPT !.pc = "recursing"]), NewFrame)
    /\ UNCHANGED <<op, arg, res, fuzzMap, node, ty, mutator, fuzzes, exec>>

\* lines 380-391: the value of the frame, that of the recursive call
\* appended, is the result; the call returns to its caller
DoReturn ==
    /\ op = "specialize"
    /\ arg.before > 0
    /\ \/ Top.pc = "results" /\ ~RecursiveMode(Top)
       \/ Top.pc = "finish"
    /\ \E value \in {arg.before + Top.sub} :
           IF Len(stack) = 1
           THEN /\ op' = "returned"
                /\ res' = [exc |-> "none", value |-> value]
                /\ stack' = <<>>
                /\ UNCHANGED <<arg, fuzzMap, node, ty, mutator, fuzzes, exec>>
           ELSE /\ stack' = [Prefix(stack, Len(stack) - 1) EXCEPT ![Len(stack) - 1] =
                                [@ EXCEPT !.sub = value, !.pc = "finish"]]
                /\ UNCHANGED <<op, arg, res, fuzzMap, node, ty, mutator, fuzzes, exec>>

NextSelf ==
    \/ DoSpecializeCall \/ DoChild \/ DoTakeOption \/ DoSkipOption
    \/ DoNoData \/ DoRecurse \/ DoReturn

SpecSelf == Init /\ [][NextSelf]_vars

\* the interpreter keeps running the call, and the random choice is fair:
\* False is drawn again and again
SpecSelfFair == SpecSelf /\ WF_vars(NextSelf) /\ SF_vars(DoSkipOption)

Ended == op \in {"returned", "raised"}

\* C21: specializing an Agg whose last child is SELF terminates only through
\* last_optional: with last_optional set and a fair choice the call
\* eventually returns, with last_optional false it never ends.
SelfEndsByOption ==
    /\ (op = "specialize" /\ arg.last_optional) ~> (op = "returned")
    /\ [](Ended => arg.last_optional)

\* with a leaf before SELF and last_optional set, the call eventually returns
SelfReturnsWithData ==
    (op = "specialize" /\ arg.last_optional /\ arg.before > 0) ~> (op = "returned")

\* with a leaf before SELF, the call ends only when last_optional is set,
\* and then it returns
SelfEndsOnlyByOption ==
    [][(Ended' /\ ~Ended /\ arg.before > 0) =>
           (arg.last_optional /\ (Top.pc = "finish" \/ ~Top.taken)
               /\ op' = "returned")]_vars

\* one level of recursion was followed and the call returned its value
SelfReturned ==
    op = "returned" /\ res.value > arg.before

-----------------------------------------------------------------------------
(* Padding.computeExpectedValue: which targets need their data, checked    *)
(* under SpecPadding                                                       *)

\* the padding lengths computeExpectedValue may return for targets of the
\* given total size
PaddingsFor(size) ==
    PaddingLengths(0, LengthToPad(ScaledSize(size, arg.factor, arg.offset), arg.modulo),
                   arg.gens)

\* the size of the targets when every target of fixed declared size counts
\* with that size
RECURSIVE ClaimedSize(_, _)
ClaimedSize(ts, i) ==
    IF i > Len(ts) THEN 0
    ELSE (IF ts[i].fixed THEN ts[i].size
          ELSE IF ts[i].kind # "Data" /\ ts[i].integer THEN ts[i].unit
          ELSE ts[i].len) + ClaimedSize(ts, i + 1)

\* lines 262-282: a target that is no Data counts with the declared size of
\* its dataType, a Data target with the length of its data in the path
RECURSIVE CountedSize(_, _)
CountedSize(ts, i) ==
    IF i > Len(ts) THEN 0
    ELSE (IF ts[i].kind # "Data" /\ ts[i].fixed THEN ts[i].size
          ELSE IF ts[i].kind # "Data" /\ ts[i].integer THEN ts[i].unit
          ELSE ts[i].len) + CountedSize(ts, i + 1)

\* every target that is no Data has a size computeExpectedValue can count
Sizeable(ts) ==
    \A i \in 1..Len(ts) : ts[i].kind # "Data" => (ts[i].fixed \/ ts[i].integer)

-----------------------------------------------------------------------------
(* The Value relation leaf.  The Value has the id 1 and its target the id  *)
(* 2.  A target is a node or a leaf whose dataType declares the size       *)
(* (min, max), each bound a number of units or None; present is FALSE for  *)
(* a Value whose target is None.  No operation callback is set, so         *)
(* _applyOperation returns the data of the target as it is.                *)

ValueVar == [id |-> 1]

NoBound == [isNone |-> TRUE, val |-> 0]
Bound(n) == [isNone |-> FALSE, val |-> n]
SizeBounds == {NoBound} \cup {Bound(n) : n \in 0..MaxSize}

ValueTarget(present, isnode, lo, hi) ==
    [id |-> 2, present |-> present, node |-> isnode, min |-> lo, max |-> hi]

ValueTargets ==
    {ValueTarget(TRUE, FALSE, lo, hi) : lo \in SizeBounds, hi \in SizeBounds}
        \cup {ValueTarget(TRUE, TRUE, NoBound, NoBound),
              ValueTarget(FALSE, FALSE, NoBound, NoBound)}

\* the paths a Value is run on: content assigned to the Value, and data
\* for the target or not
ValuePaths ==
    {assignData(p, c, ValueVar) :
        p \in {EmptyPath} \cup {assignData(EmptyPath, e, ValueTarget(TRUE, FALSE, NoBound, NoBound)) :
                                   e \in SeqsOf(0, MaxSize)},
        c \in SeqsOf(0, MaxData)}

Expected(exc, isNone, value) == [exc |-> exc, isNone |-> isNone, value |-> value]

\* Value.computeExpectedValue (lines 262-273)
ValueComputeExpectedValue(tg, p) ==
    IF ~tg.present THEN Expected("Exception", FALSE, <<>>)
    ELSE IF ~hasData(p, tg) THEN Expected("none", TRUE, <<>>)
    ELSE Expected("none", FALSE, getData(p, tg))

\* what valueCMP leaves: the exception, the paths returned and the path it
\* was given, as it is after the call
CMPResult(exc, paths, input) == [exc |-> exc, paths |-> paths, input |-> input]

\* lines 236-241: a duplicate of the path per size, from hi down to lo
Candidates(p, content, hi, lo) ==
    IF hi < lo THEN <<>>
    ELSE [k \in 1..(hi - lo + 1) |-> addResult(p, ValueVar, Prefix(content, hi - k + 1))]

\* Value.valueCMP (lines 207-249).  Comparing None with an int, and
\* min(None, int), raise TypeError
ValueCMP(tg, p) ==
    LET content == getData(p, ValueVar)
        e == ValueComputeExpectedValue(tg, p)
    IN  IF e.exc # "none" THEN CMPResult(e.exc, <<>>, p)
        ELSE IF e.isNone
        THEN IF tg.node THEN CMPResult("none", Candidates(p, content, Len(content), 0), p)
             ELSE IF tg.min.isNone THEN CMPResult("TypeError", <<>>, p)
             ELSE IF tg.min.val > Len(content) THEN CMPResult("none", <<>>, p)
             ELSE IF tg.max.isNone THEN CMPResult("TypeError", <<>>, p)
             ELSE CMPResult("none",
                      Candidates(p, content, Min(tg.max.val, Len(content)), tg.min.val), p)
        ELSE IF Prefix(content, Min(Len(e.value), Len(content))) = e.value
        THEN CMPResult("none", <<addResult(p, ValueVar, Prefix(content, Len(e.value)))>>,
                       addResult(p, ValueVar, Prefix(content, Len(e.value))))
        ELSE CMPResult("none", <<>>, p)

DoValueComputeExpectedValue ==
    /\ op = "init"
    /\ \E tg \in ValueTargets, p \in ValuePaths :
           /\ op' = "ValueComputeExpectedValue"
           /\ arg' = [target |-> tg, path |-> p]
           /\ res' = [out |-> ValueComputeExpectedValue(tg, p), path |-> p]
           /\ UNCHANGED <<fuzzMap, node, ty, mutator, stack, fuzzes, exec>>

DoValueCMP ==
    /\ op = "init"
    /\ \E tg \in ValueTargets, p \in ValuePaths :
           /\ op' = "valueCMP"
           /\ arg' = [target |-> tg, path |-> p]
           /\ res' = ValueCMP(tg, p)
           /\ UNCHANGED <<fuzzMap, node, ty, mutator, stack, fuzzes, exec>>

NextValue == DoValueComputeExpectedValue \/ DoValueCMP

SpecValue == Init /\ [][NextValue]_vars

-----------------------------------------------------------------------------
(* Missing dependencies of relation leaves: Padding under SpecPadding,     *)
(* Value under SpecValue                                                   *)

\* the first target computeExpectedValue cannot count is a Data target the
\* path holds no data for
MissingFirst(ts) ==
    \E i \in 1..Len(ts) :
        /\ ts[i].kind = "Data" /\ ~ts[i].inPath
        /\ \A j \in 1..(i - 1) :
               \/ ts[j].kind = "Data" /\ ts[j].inPath
               \/ ts[j].kind # "Data" /\ (ts[j].fixed \/ ts[j].integer)

\* lines 263-271: what a Padding raises for a target that is no Data and
\* has neither a fixed size nor an Integer dataType
ConfigurationError ==
    CHOOSE r \in computeExpectedValue(<<Target("Relation", FALSE, 0, FALSE, TRUE, 1)>>,
                                      1, <<1, 1>>, 0, {1}) : TRUE

\* C23: when a target has no value in the path, computeExpectedValue
\* reports a dependency-missing outcome that callers can tell apart both
\* from a computed value and from a configuration error; what a caller
\* tells outcomes apart by is a return against a raise, and the class of
\* the exception raised.
DependencyMissingDistinct ==
    (op = "computeExpectedValue" /\ MissingFirst(arg.targets))
        => /\ res.exc # "none"
           /\ res.exc # ConfigurationError.exc

\* the two exceptions of a Padding differ by their message only
DependencyMissingMessage ==
    (op = "computeExpectedValue" /\ MissingFirst(arg.targets))
        => /\ res.exc = "Exception"
           /\ ConfigurationError.exc = "Exception"
           /\ res.msg = "dependencies are missing"
           /\ res.msg # ConfigurationError.msg

\* a Value returns None when its target has no data, raises for a missing
\* target and returns the data of the target otherwise; the path is left
\* as it was
ValueMissingIsNone ==
    op = "ValueComputeExpectedValue"
        => /\ res.path = arg.path
           /\ (arg.target.present /\ ~hasData(arg.path, arg.target))
                 => (res.out.exc = "none" /\ res.out.isNone)
           /\ ~arg.target.present => res.out.exc = "Exception"
           /\ (arg.target.present /\ hasData(arg.path, arg.target))
                 => /\ res.out.exc = "none" /\ ~res.out.isNone
                    /\ res.out.value = getData(arg.path, arg.target)

-----------------------------------------------------------------------------
(* Value.valueCMP, checked under SpecValue *)

\* what valueCMP is to return for the content c: a duplicate of the path
\* per candidate length from hi down to lo when the target has no data,
\* else the path itself with the expected value as result, if c starts with it
GreedyOutcome(tg, p, hi, lo) ==
    LET c == getData(p, ValueVar)
    IN  IF ~hasData(p, tg)
        THEN /\ res.exc = "none"
             /\ Len(res.paths) = (IF hi < lo THEN 0 ELSE hi - lo + 1)
             /\ \A k \in 1..Len(res.paths) :
                    res.paths[k] = addResult(p, ValueVar, Prefix(c, hi - k + 1))
             /\ res.input = p
        ELSE /\ res.exc = "none"
             /\ res.paths = IF StartsWith(c, getData(p, tg))
                            THEN <<addResult(p, ValueVar, Prefix(c, Len(getData(p, tg))))>>
                            ELSE <<>>

\* C24: when the target of a Value has no data yet, valueCMP on content c
\* returns one path per candidate length s, for s from min(target max size,
\* len(c)) down to the target min size, in strictly decreasing order of s;
\* each is a duplicate of the input path holding c[:s] as the result of the
\* Value, and the input path receives no result.  When the target has data,
\* it returns the input path with the result c[:len(e)] if c starts with the
\* expected value e, and the empty list otherwise.  A bound that is None is
\* no limit.
ValueCMPGreedy ==
    (op = "valueCMP" /\ arg.target.present /\ ~arg.target.node)
        => LET c == getData(arg.path, ValueVar)
           IN  GreedyOutcome(arg.target, arg.path,
                   IF arg.target.max.isNone THEN Len(c)
                   ELSE Min(arg.target.max.val, Len(c)),
                   IF arg.target.min.isNone THEN 0 ELSE arg.target.min.val)

\* the same for a target whose dataType declares both bounds of its size
ValueCMPGreedyBounded ==
    (op = "valueCMP" /\ arg.target.present /\ ~arg.target.node
        /\ ~arg.target.min.isNone /\ ~arg.target.max.isNone)
        => GreedyOutcome(arg.target, arg.path,
               Min(arg.target.max.val, Len(getData(arg.path, ValueVar))),
               arg.target.min.val)

\* a target that is a node admits every length of the content
ValueCMPGreedyNode ==
    (op = "valueCMP" /\ arg.target.present /\ arg.target.node)
        => GreedyOutcome(arg.target, arg.path, Len(getData(arg.path, ValueVar)), 0)

-----------------------------------------------------------------------------
(* Equality of Padding variables.  A Padding built with a callable data    *)
(* keeps it as data_callback and never assigns dataType (lines 223-227):   *)
(* reading dataType, as __key does, then raises AttributeError.            *)

PaddingTypes == {"Raw", "uint8"}

PaddingVar(id, callback, dataType, modulo, factor, offset, targets) ==
    [id |-> id, callback |-> callback, dataType |-> dataType, modulo |-> modulo,
     factor |-> factor, offset |-> offset, targets |-> targets]

\* Padding(targets, data, modulo, factor, offset): data is a type or a callback
PaddingVars(id) ==
    {PaddingVar(id, FALSE, dt, m, f, o, t) :
        dt \in PaddingTypes, m \in 1..2, f \in {<<1, 1>>, <<1, 2>>}, o \in 0..1, t \in 1..2}
      \cup {PaddingVar(id, TRUE, "unset", 1, f, o, 1) : f \in {<<1, 1>>, <<1, 2>>}, o \in 0..1}

KeyOf(exc, key) == [exc |-> exc, key |-> key]

\* Padding.__key (lines 229-230)
PaddingKey(x) ==
    IF x.callback THEN KeyOf("AttributeError", <<>>)
    ELSE KeyOf("none", <<x.dataType, x.factor, x.offset>>)

\* Padding.__eq__ (lines 232-236): any exception gives False
PaddingEq(x, y) ==
    IF PaddingKey(x).exc # "none" \/ PaddingKey(y).exc # "none" THEN FALSE
    ELSE PaddingKey(x).key = PaddingKey(y).key

\* Padding.__hash__ (lines 238-239): the hash of the key, written as the key
PaddingHash(x) == PaddingKey(x)

\* x == y and the two hashes, for two variables or one and the same
DoPaddingCompare ==
    /\ op = "init"
    /\ \E x \in PaddingVars(1), y \in PaddingVars(1) \cup PaddingVars(2) :
           /\ x.id = y.id => x = y
           /\ op' = "PaddingEq"
           /\ arg' = [x |-> x, y |-> y]
           /\ res' = [eq |-> PaddingEq(x, y), hx |-> PaddingHash(x), hy |-> PaddingHash(y)]
           /\ UNCHANGED <<fuzzMap, node, ty, mutator, stack, fuzzes, exec>>

NextPaddingEq == DoPaddingCompare

SpecPaddingEq == Init /\ [][NextPaddingEq]_vars

\* the (dataType, factor, offset) of the two variables are the same; a
\* variable built with a callback has no dataType
SameTriple(x, y) ==
    /\ x.callback = y.callback
    /\ x.dataType = y.dataType
    /\ x.factor = y.factor
    /\ x.offset = y.offset

\* C25: two Padding variables are equal, and have equal hashes, exactly when
\* their (dataType, factor, offset) are equal, whatever their targets,
\* modulo and identity; every Padding, also one built with a data callback,
\* is equal to itself.
PaddingEqByTriple ==
    op = "PaddingEq"
        => /\ res.eq <=> SameTriple(arg.x, arg.y)
           /\ SameTriple(arg.x, arg.y)
                 => (res.hx.exc = "none" /\ res.hy.exc = "none" /\ res.hx = res.hy)
           /\ arg.x.id = arg.y.id => res.eq

\* the same for variables built with a data type
PaddingEqByTripleTyped ==
    (op = "PaddingEq" /\ ~arg.x.callback /\ ~arg.y.callback)
        => /\ res.eq <=> SameTriple(arg.x, arg.y)
           /\ res.eq <=> (res.hx = res.hy)
           /\ res.hx.exc = "none" /\ res.hy.exc = "none"
           /\ arg.x.id = arg.y.id => res.eq

-----------------------------------------------------------------------------
(* The default parameters of the types, checked under SpecFuzz *)

\* the step is a call of set() for a field or a variable
SetsField == op' = "set" /\ ~IsTypeKey(arg'.key)

\* C26: keyword parameters given to Fuzz.set() for one field or variable
\* apply only to that key's mutator: the type defaults of
\* mappingTypesMutators are not changed by a per-field set(), so that a later
\* set() of another key of the same type, given no parameter, builds its
\* mutator with the type's default parameters.
FieldParamsStayLocal ==
    [][SetsField =>
          /\ fuzzMap'.types = fuzzMap.types
          /\ arg'.kwargs.mode = "absent" =>
                 fuzzMap'.fields[KeyVar(arg'.key)]
                     = MutatorInstance(fuzzMap.types[TypeOf(KeyVar(arg'.key))])]_vars

\* a set() without parameter leaves the type defaults as they are and
\* builds the mutator from them
SetWithoutParams ==
    [][(SetsField /\ arg'.kwargs.mode = "absent") =>
          /\ fuzzMap'.types = fuzzMap.types
          /\ fuzzMap'.fields[KeyVar(arg'.key)]
                 = MutatorInstance(fuzzMap.types[TypeOf(KeyVar(arg'.key))])]_vars

\* a set() with a parameter stores it as the default of the type of the key
SetWithParams ==
    [][(SetsField /\ arg'.kwargs.mode # "absent") =>
          fuzzMap'.types[TypeOf(KeyVar(arg'.key))].mode = arg'.kwargs.mode]_vars

-----------------------------------------------------------------------------
(* Two Fuzz objects used side by side *)

\* the keys the two objects are configured with: the type of the leaves, a
\* field and its domain
TwoFuzzKeys == {TypeKey, FieldKey(1), VarKey(1)}

\* x = Fuzz(counterMax=c)
DoFuzzNewOn ==
    /\ op \in {"init", "Fuzz()", "Fuzz.set"}
    /\ \E x \in FuzzNames, c \in 1..2 :
           /\ ~fuzzes.created[x]
           /\ op' = "Fuzz()"
           /\ arg' = [fuzz |-> x, counterMax |-> c]
           /\ res' = Idle
           /\ fuzzes' = FuzzNew(fuzzes, x, c)
           /\ UNCHANGED <<fuzzMap, node, ty, mutator, stack, exec>>

\* x.set(key, **kwargs)
DoFuzzSetOn ==
    /\ op \in {"Fuzz()", "Fuzz.set"}
    /\ fuzzes.calls < MaxFuzzCalls + 1
    /\ \E x \in FuzzNames, k \in TwoFuzzKeys, kw \in Kwargs :
           /\ fuzzes.created[x]
           /\ op' = "Fuzz.set"
           /\ arg' = [fuzz |-> x, key |-> k, kwargs |-> kw]
           /\ res' = Idle
           /\ fuzzes' = FuzzSetOn(fuzzes, x, k, kw)
           /\ UNCHANGED <<fuzzMap, node, ty, mutator, stack, exec>>

NextTwoFuzz == DoFuzzNewOn \/ DoFuzzSetOn

SpecTwoFuzz == Init /\ [][NextTwoFuzz]_vars

\* the mutator x.set(key) would now build for a field or a variable
WouldBuild(x, k, kw) == FuzzSetOn(fuzzes, x, k, kw).fields[x][KeyVar(k)]

\* the step is an operation on B while A exists
StepOnB == fuzzes.created["A"] /\ op' \in {"Fuzz()", "Fuzz.set"} /\ arg'.fuzz = "B"

\* C27: Fuzz configurations are independent of each other: an operation on
\* B (creating it, set() on a type, set() on a field, choosing counterMax)
\* never changes the mutators that A's set() builds, the entries returned
\* by A.get(), or the mutation limit that applies to A.
FuzzIndependent ==
    [][StepOnB =>
          /\ \A k \in TwoFuzzKeys \ {TypeKey}, kw \in Kwargs :
                 WouldBuild("A", k, kw)' = WouldBuild("A", k, kw)
          /\ \A k \in TwoFuzzKeys \ {TypeKey} :
                 FuzzGetOn(fuzzes, "A", k)' = FuzzGetOn(fuzzes, "A", k)
          /\ CounterMaxOf(fuzzes, "A")' = CounterMaxOf(fuzzes, "A")]_vars

\* the entries of A are not changed by an operation on B
FuzzEntriesIndependent ==
    [][StepOnB => fuzzes'.fields["A"] = fuzzes.fields["A"]]_vars

-----------------------------------------------------------------------------
(* DomainFactory.normalizeDomain applied a second time: to an Agg that was *)
(* built (its constructor assigned the children through the setter), and   *)
(* to the one-element list [d] of a domain d.                              *)

\* the domains d of the one-element lists: values, a leaf, Aggs built before
SingleDomains ==
    <<RawValue(1, <<1>>), RawValue(1, <<NByte>>), EphLeaf(2, 1, 1),
      ConstLeaf(1, <<1>>),
      Agg(3, <<ConstLeaf(1, <<1>>)>>, FALSE),
      Agg(4, <<ConstLeaf(1, <<1>>), ConstLeaf(2, <<NByte>>)>>, TRUE)>>

\* a = Agg(children, last_optional=b); DomainFactory.normalizeDomain(a)
DoNormalizeBuilt ==
    /\ op = "init"
    /\ \E f \in ChildChoices, b \in BOOLEAN :
           \E s \in {setChildren(ChildList(f), 1, <<>>)} :
               /\ s.exc = "none"
               /\ op' = "normalizeDomain(a)"
               /\ arg' = [domain |-> Agg(TopId, s.children, b)]
               /\ res' = normalizeDomain(Agg(TopId, s.children, b))
               /\ UNCHANGED <<fuzzMap, node, ty, mutator, stack, fuzzes, exec>>

\* DomainFactory.normalizeDomain([d])
DoNormalizeSingle ==
    /\ op = "init"
    /\ \E k \in 1..Len(SingleDomains) :
           /\ op' = "normalizeDomain([d])"
           /\ arg' = [domain |-> SingleDomains[k]]
           /\ res' = normalizeDomain(List(TopId, <<SingleDomains[k]>>))
           /\ UNCHANGED <<fuzzMap, node, ty, mutator, stack, fuzzes, exec>>

NextNormalize == DoNormalizeBuilt \/ DoNormalizeSingle

SpecNormalize == Init /\ [][NextNormalize]_vars

\* the Agg ends with the SELF marker
EndsWithSelf(a) ==
    Len(a.children) > 0 /\ IsSelf(a.children[Len(a.children)])

\* C28: normalizeDomain applied to an already built Agg raises nothing and
\* returns the same Agg with the same children in the same order, a trailing
\* SELF marker included; and normalizeDomain([d]) equals normalizeDomain(d)
\* for every domain d, leaf or node.
NormalizeIdempotent ==
    /\ op = "normalizeDomain(a)" => res = Normalized(arg.domain)
    /\ op = "normalizeDomain([d])" => res = normalizeDomain(arg.domain)

\* a built Agg that does not end with SELF is returned as it is
NormalizeIdempotentNoSelf ==
    (op = "normalizeDomain(a)" /\ ~EndsWithSelf(arg.domain))
        => res = Normalized(arg.domain)

\* a built Agg that ends with SELF is refused
NormalizeSelfRefused ==
    (op = "normalizeDomain(a)" /\ EndsWithSelf(arg.domain))
        => res = NotNormalized("TypeError")

\* the one-element list of a value or of a leaf is normalized as its element
NormalizeSingleLeaf ==
    (op = "normalizeDomain([d])" /\ ~IsNode(arg.domain))
        => res = normalizeDomain(arg.domain)

\* the one-element list of a node is refused, the node itself is not
NormalizeSingleNodeRefused ==
    (op = "normalizeDomain([d])" /\ IsNode(arg.domain))
        => /\ res = NotNormalized("TypeError")
           /\ normalizeDomain(arg.domain) = Normalized(arg.domain)

-----------------------------------------------------------------------------
(* The active flag of a Transition over the steps of executeAsInitiator    *)
(* and executeAsNotInitiator.  A callback of cbk_modify_symbol is code of  *)
(* the caller: it returns, or it raises.                                   *)

CallbackOutcomes == {"absent", "returns", "raises"}

Executions ==
    [method : {"executeAsInitiator", "executeAsNotInitiator"},
     layerIsNone : BOOLEAN,
     hasOutput : BOOLEAN,
     cbk : CallbackOutcomes,
     write : Outcomes,
     read : Outcomes,
     expected : BOOLEAN]

Executing(pc) == [active |-> TRUE, pc |-> pc]
Finished(active, pc) == [active |-> active, pc |-> pc]

\* lines 203-206 and 284-287: TypeError for no abstraction layer, else the
\* flag is set
DoExecuteCall ==
    /\ op = "init"
    /\ \E e \in Executions :
           /\ arg' = e
           /\ IF e.layerIsNone
              THEN /\ op' = "raised"
                   /\ res' = [exc |-> "TypeError"]
                   /\ exec' = Finished(exec.active, "raised")
              ELSE /\ op' = e.method
                   /\ res' = Idle
                   /\ exec' = Executing("select")
    /\ UNCHANGED <<fuzzMap, node, ty, mutator, stack, fuzzes>>

\* lines 208-224: the symbol to send is the input symbol, handed to the
\* callbacks; lines 290 and 326-380: __pickOutputSymbol divides by the number
\* of output symbols, picks one and hands it to the callbacks.  No handler
\* surrounds either.
DoSelectSymbol ==
    /\ op \in {"executeAsInitiator", "executeAsNotInitiator"}
    /\ exec.pc = "select"
    /\ \E e \in {IF op = "executeAsNotInitiator" /\ ~arg.hasOutput
                 THEN "ZeroDivisionError"
                 ELSE IF arg.cbk = "raises" THEN "CallbackError" ELSE "none"} :
           IF e = "none"
           THEN /\ exec' = Executing("write")
                /\ UNCHANGED <<op, res>>
           ELSE /\ exec' = Finished(exec.active, "raised")
                /\ op' = "raised"
                /\ res' = [exc |-> e]
    /\ UNCHANGED <<arg, fuzzMap, node, ty, mutator, stack, fuzzes>>

\* lines 226-237 and 299-314: writeSymbol; every handler clears the flag
DoWriteSymbol ==
    /\ op \in {"executeAsInitiator", "executeAsNotInitiator"}
    /\ exec.pc = "write"
    /\ CASE arg.write = "ok" /\ op = "executeAsInitiator" ->
                /\ exec' = Executing("read")
                /\ UNCHANGED <<op, res>>
         [] arg.write = "ok" /\ op = "executeAsNotInitiator" ->
                /\ exec' = Finished(FALSE, "returned")
                /\ op' = "returned"
                /\ res' = [exc |-> "none"]
         [] arg.write = "timeout" /\ op = "executeAsNotInitiator" ->
                /\ exec' = Finished(FALSE, "returned")
                /\ op' = "returned"
                /\ res' = [exc |-> "none"]
         [] arg.write = "timeout" /\ op = "executeAsInitiator" ->
                /\ exec' = Finished(FALSE, "raised")
                /\ op' = "raised"
                /\ res' = [exc |-> "socket.timeout"]
         [] OTHER ->
                /\ exec' = Finished(FALSE, "raised")
                /\ op' = "raised"
                /\ res' = [exc |-> "Exception"]
    /\ UNCHANGED <<arg, fuzzMap, node, ty, mutator, stack, fuzzes>>

\* lines 239-267: readSymbol and the comparison with the output symbols;
\* the flag is cleared on every path, before the exception for an unexpected
\* symbol too
DoReadSymbol ==
    /\ op = "executeAsInitiator"
    /\ exec.pc = "read"
    /\ CASE arg.read = "timeout" ->
                /\ exec' = Finished(FALSE, "raised")
                /\ op' = "raised"
                /\ res' = [exc |-> "socket.timeout"]
         [] arg.read = "error" ->
                /\ exec' = Finished(FALSE, "raised")
                /\ op' = "raised"
                /\ res' = [exc |-> "Exception"]
         [] arg.read = "ok" /\ arg.expected /\ arg.hasOutput ->
                /\ exec' = Finished(FALSE, "returned")
                /\ op' = "returned"
                /\ res' = [exc |-> "none"]
         [] OTHER ->
                /\ exec' = Finished(FALSE, "raised")
                /\ op' = "raised"
                /\ res' = [exc |-> "NameError"]
    /\ UNCHANGED <<arg, fuzzMap, node, ty, mutator, stack, fuzzes>>

NextExecute == DoExecuteCall \/ DoSelectSymbol \/ DoWriteSymbol \/ DoReadSymbol

SpecExecute == Init /\ [][NextExecute]_vars

InProgress == exec.pc \in {"select", "write", "read"}

\* C29: whenever executeAsInitiator or executeAsNotInitiator finishes, by
\* returning or by raising (an exception of a cbk_modify_symbol callback or
\* of the selection of the output symbol included), the active flag is
\* False; it is True only while the execution is in progress.
ActiveOnlyInProgress == exec.active <=> InProgress

\* the flag is set all along the execution
ActiveInProgress == InProgress => exec.active

\* the flag is left set only by an exception raised while the symbol to
\* send is selected
ActiveLeftBySelection ==
    (exec.active /\ ~InProgress)
        => /\ op = "raised"
           /\ res.exc \in {"ZeroDivisionError", "CallbackError"}

\* once the symbol is selected the flag is cleared however the method ends
ActiveClearedAfterSelection ==
    [][(exec.pc \in {"write", "read"} /\ ~InProgress') => ~exec'.active]_vars

====
